---- MODULE Spec2Model ----
(***************************************************************************)
(* Verification model of the context.TODO() rewriters of fbin-scripts.     *)
(*                                                                         *)
(*   Spec       the AST rewriter (src/unnamed/part_004, processFile): the  *)
(*              skip-set pass over the go statements followed by the       *)
(*              astutil.Apply walk with its frame stack.  The file is      *)
(*              presented to the walker node by node.                      *)
(*   SpecRW     the line rewriter with baseline (src/unnamed/part_003,     *)
(*              RewriteContent), line by line over every text of a         *)
(*              bounded family of function bodies, then once more over     *)
(*              its own output.                                            *)
(*   SpecLines  the earlier line rewriter (src/go_ctx_ast/main.go,         *)
(*              processLines) over the same family.                        *)
(*   SpecLex    the line rewriter of part_003 over texts made of           *)
(*              comments, string, rune and raw-string literals.            *)
(*   SpecGo     the line rewriter of part_003 over functions holding one   *)
(*              go statement: inline launches, launches of a named         *)
(*              function, with the launched function's declaration.        *)
(*   SpecFile   RewriteFile (src/go_ctx_ast/main.go): read, rewrite, and   *)
(*              os.WriteFile with the outcomes the file system can give.   *)
(*   SpecMain   main (src/go_ctx_ast/main.go): the command-line arguments, *)
(*              files and directories, with RewriteDir's walk.             *)
(*   SpecInit   Spec plus := in the init clause of if, for and switch.     *)
(*   SpecPkg    Spec plus var declarations at package level.               *)
(*   SpecShift  the rewriter of main.go over functions with several go     *)
(*              statements, followed by a second function.                 *)
(*   SpecWord   replaceStandaloneCtx applied to every line of a bounded    *)
(*              set.                                                       *)
(*                                                                         *)
(* A text is a sequence of lines, a line a sequence of lexical pieces.     *)
(***************************************************************************)
EXTENDS Integers, Sequences, FiniteSets, TLC

\* ------------------------------------------------------------------ bounds
MaxPos == 4        \* number of positioned nodes the walked file may hold
MaxNest == 4       \* nesting of open nodes (FuncDecl, FuncLit, BlockStmt)
MaxBody == 5       \* lines in the body of a function given to the line rewriter
MaxBlock == 2      \* nesting of blocks in such a body
MaxDecls == 2      \* := declarations of ctx in such a body
MaxGo == 1         \* go statements in such a body
MaxLexLines == 2   \* lines of a lexical text
MaxPieces == 5     \* pieces in a lexical text
MaxTodo == 1       \* context.TODO() in a lexical text
MaxGoBody == 2     \* statements in the body of a launched literal
MaxFileBody == 1   \* body lines of a function in a file given to RewriteFile
MaxArgs == 2       \* command-line arguments
MaxDirFiles == 2   \* .go files in a directory
MaxShift == 5      \* body lines of a function with several go statements
MaxWord == 3       \* words of a line handed to replaceStandaloneCtx

\* --------------------------------------------------------------- utilities
Last(s) == s[Len(s)]

Front(s) == SubSeq(s, 1, Len(s) - 1)

\* ------------------------------------------------- part_004: types, frames
ctxNone == "none"

ctxValue == "value"

ctxPointer == "pointer"

\* The named functions of the file (types.Func identities).
Funcs == {"f"}

\* Types the type checker can report for a declared identifier: a base name
\* under `ptr` levels of pointer.  NilType is a type that could not be found.
NilType == [ptr |-> 0, base |-> "nil"]

Types ==
  { [ptr |-> p, base |-> b] : p \in 0..1, b \in {"context.Context", "http.Request", "int"} }
    \cup {NilType}

\* isContextType: context.Context is a value, any pointer chain ending in it
\* is a pointer kind, everything else is no context.
isContextType(t) ==
  IF t.base = "context.Context"
    THEN IF t.ptr = 0 THEN ctxValue ELSE ctxPointer
    ELSE ctxNone

\* isRequestPtrType: exactly *http.Request.
isRequestPtrType(t) == t.ptr = 1 /\ t.base = "http.Request"

\* scopeFrame{} (the zero value)
ZeroFrame == [ctxKind |-> ctxNone, ctxAvailPos |-> 0, rPresent |-> FALSE, rAvailPos |-> 0]

VARIABLES
  phase,             \* "scan" (first pass), "walk" (astutil.Apply), "done", "panic"
  skipFuncs,         \* functions that are the target of a `go f(...)`
  syncCalled,        \* history: functions called by a plain call statement
  frameStack,        \* []scopeFrame
  funcStack,         \* []funcCtx
  nodes,             \* the walker's open nodes, innermost last
  pos,               \* token.Pos of the node last positioned
  last,              \* what the walker did last (the notice it printed)
  scopes             \* history: Go's own lexical scopes for ctx and r

astVars ==
  <<phase, skipFuncs, syncCalled, frameStack, funcStack,
    nodes, pos, last, scopes>>

\* The line-oriented rewriter (src/unnamed/part_003, RewriteContent).
VARIABLES
  pc,                \* "idle", "walk" (between functions), "loop", "done"
  src,               \* the source text RewriteContent was given
  run,               \* 1: on the input, 2: again on the first output
  out1,              \* the result of the first run
  lines,             \* strings.Split(src, "\n"), rewritten in place
  goFuncBlocks,      \* start line -> end line of every go statement
  addedLinesCount,   \* lines inserted while earlier functions were processed
  fns,               \* the functions walkFuncs has still to visit
  currFuncScope,     \* the top of fnScopeStack
  i,                 \* processFunction's loop index
  end,               \* processFunction's end
  ogEnd,             \* processFunction's ogEnd
  depth,             \* brace depth at the start of line i
  localCtxDepth,     \* depth of the tracked local ctx, -1 if none
  localRDepth,       \* depth of the tracked local r, -1 if none
  site               \* history: the line last handled, before and after

rwVars ==
  <<pc, src, run, out1, lines, goFuncBlocks, addedLinesCount, fns, currFuncScope,
    i, end, ogEnd, depth, localCtxDepth, localRDepth, site>>

\* RewriteFile (src/go_ctx_ast/main.go): the file it is given.
VARIABLES
  disk               \* the lines of the file as they are on disk

\* main (src/go_ctx_ast/main.go): the loop over the command line.
VARIABLES
  cmd,               \* os.Args[1:]: files and directories
  argi,              \* the argument the loop is at
  filei,             \* the file filepath.Walk is at, 0 outside a walk
  rewritten,         \* history: <<argument, file>> of the files rewritten
  notices            \* what was printed: <<argument, "ok" or "error">>

mainVars == <<cmd, argi, filei, rewritten, notices>>

fileVars == <<disk, mainVars>>

vars == <<astVars, rwVars, fileVars>>

\* ------------------------------------------------ part_004: frame helpers
\* A nil *scopeFrame.
NilFrame == [ctxKind |-> "nil", ctxAvailPos |-> 0, rPresent |-> FALSE, rAvailPos |-> 0]

\* pushFrame(copyFrom): nil pushes the zero frame, otherwise a copy.
pushFrame(stack, copyFrom) ==
  IF copyFrom = NilFrame THEN Append(stack, ZeroFrame) ELSE Append(stack, copyFrom)

\* popFrame as a scope exit that resets the enclosing ctx instead of restoring it.
popFrameCleared(stack) ==
  IF Len(stack) = 0
    THEN stack
    ELSE IF Len(stack) = 1
           THEN <<>>
           ELSE [Front(stack) EXCEPT ![Len(stack) - 1].ctxKind = ctxNone]

\* popFrame: drops the top frame, a no-op on the empty stack.
popFrame(stack) == IF Len(stack) = 0 THEN stack ELSE Front(stack)

\* currentFrame: the top frame or nil.
currentFrame(stack) == IF Len(stack) = 0 THEN NilFrame ELSE Last(stack)

\* fr.ctxKind/fr.ctxAvailPos or fr.rPresent/fr.rAvailPos are set on the top
\* frame when a declared identifier is named ctx or r and has a fitting type.
bind(stack, name, t, p) ==
  LET fr == Last(stack)
      nf == IF t = NilType
              THEN fr
              ELSE IF name = "ctx"
              THEN IF isContextType(t) # ctxNone
                     THEN [fr EXCEPT !.ctxKind = isContextType(t), !.ctxAvailPos = p]
                     ELSE fr
              ELSE IF name = "r" /\ isRequestPtrType(t)
                     THEN [fr EXCEPT !.rPresent = TRUE, !.rAvailPos = p]
                     ELSE fr
  IN [stack EXCEPT ![Len(stack)] = nf]

\* replacementFor with the request tried before ctx.
replacementForRFirst(fr, p) ==
  IF fr.rPresent /\ p >= fr.rAvailPos
    THEN "r.Context()"
    ELSE IF fr.ctxKind # ctxNone /\ p >= fr.ctxAvailPos
           THEN IF fr.ctxKind = ctxValue THEN "ctx" ELSE "*ctx"
           ELSE "context.TODO()"

\* The replacement chosen for a context.TODO() at position p under frame fr.
replacementFor(fr, p) ==
  IF fr.ctxKind # ctxNone /\ p >= fr.ctxAvailPos
    THEN IF fr.ctxKind = ctxValue THEN "ctx" ELSE "*ctx"
    ELSE IF fr.rPresent /\ p >= fr.rAvailPos
           THEN "r.Context()"
           ELSE "context.TODO()"

\* ------------------------------------------- part_004: the skip-set pass
\* A go statement is inspected.  A function literal only adds a skip range;
\* a named target that resolves to a function is added to skipFuncs; a
\* target that does not resolve (a function value) adds nothing.
InspectGoStmt(target) ==
  /\ phase = "scan"
  /\ skipFuncs' = IF target \in Funcs THEN skipFuncs \cup {target} ELSE skipFuncs
  /\ UNCHANGED <<phase, syncCalled, frameStack, funcStack, nodes, pos,
                 last, scopes>>

\* Any other node of the first pass: a plain call of f changes nothing.
InspectCall(f) ==
  /\ phase = "scan"
  /\ syncCalled' = syncCalled \cup {f}
  /\ UNCHANGED <<phase, skipFuncs, frameStack, funcStack, nodes, pos,
                 last, scopes>>

\* The first pass is over and astutil.Apply starts.
StartWalk ==
  /\ phase = "scan"
  /\ phase' = "walk"
  /\ UNCHANGED <<skipFuncs, syncCalled, frameStack, funcStack, nodes,
                 pos, last, scopes>>

\* ----------------------------------------------------- part_004: the walk
\* Parameter lists a FuncDecl or FuncLit may have.
Param(n, b, p) == [name |-> n, type |-> [ptr |-> p, base |-> b]]

ParamLists ==
  { <<>>,
    <<Param("ctx", "context.Context", 0)>>,
    <<Param("ctx", "context.Context", 1)>>,
    <<Param("r", "http.Request", 1)>>,
    <<Param("ctx", "context.Context", 0), Param("r", "http.Request", 1)>> }

\* The parameter loop: each named parameter is bound at its own position.
RECURSIVE bindParams(_, _, _)
bindParams(stack, params, p) ==
  IF params = <<>>
    THEN stack
    ELSE bindParams(bind(stack, params[1].name, params[1].type, p + 1), Tail(params), p + 1)

\* -no-goroutines: the flag's default.
flagNoGoroutines == FALSE

\* insideSkipRange: the position lies in the body of a literal that is the
\* function of a go statement (its range was recorded by the first pass).
insideSkipRange(ns) == \E k \in 1..Len(ns) : ns[k].t = "FuncLit" /\ ns[k].go

Node(t, go, saved) == [t |-> t, body |-> FALSE, go |-> go, saved |-> saved]

\* ---- history: Go's lexical scoping, kept beside the walk
\* The kind Go gives a declared ctx: a context kind, or "other".
DeclKind(t) == IF t # NilType /\ isContextType(t) # ctxNone THEN isContextType(t) ELSE "other"

NoScope == [ctx |-> ctxNone, ctxPos |-> 0, r |-> "none", ownCtx |-> FALSE, ownR |-> FALSE,
            lits |-> 0]

NoLast ==
  [op |-> "none", repl |-> "", fr |-> NilFrame, p |-> 0, skipWhole |-> FALSE,
   inSkipRange |-> FALSE, want |-> NoScope, popped |-> NilFrame, saved |-> NilFrame]

Declare(sc, name, t, p) ==
  IF name = "ctx"
    THEN [sc EXCEPT !.ctx = DeclKind(t), !.ctxPos = p, !.ownCtx = TRUE]
    ELSE [sc EXCEPT !.r = IF t # NilType /\ isRequestPtrType(t) THEN "request" ELSE "other",
                    !.ownR = TRUE]

RECURSIVE DeclareParams(_, _, _)
DeclareParams(sc, params, p) ==
  IF params = <<>>
    THEN sc
    ELSE DeclareParams(Declare(sc, params[1].name, params[1].type, p + 1), Tail(params), p + 1)

Owns(sc, name) == IF name = "ctx" THEN sc.ownCtx ELSE sc.ownR

\* case *ast.FuncDecl (pre)
EnterFuncDecl(f, params) ==
  /\ phase = "walk"
  /\ nodes = <<>>
  /\ pos + Len(params) <= MaxPos
  /\ frameStack' = bindParams(pushFrame(frameStack, NilFrame), params, pos)
  /\ funcStack' = Append(funcStack, [fnObj |-> f, skipWhole |-> f \in skipFuncs])
  /\ nodes' = Append(nodes, Node("FuncDecl", FALSE, NilFrame))
  /\ pos' = pos + Len(params)
  /\ scopes' = Append(scopes, DeclareParams(NoScope, params, pos))
  /\ last' = NoLast
  /\ UNCHANGED <<phase, skipFuncs, syncCalled>>

\* case *ast.FuncLit (pre); go tells whether the literal is launched by go.
EnterFuncLit(go, params) ==
  /\ phase = "walk"
  /\ nodes # <<>> /\ Last(nodes).t = "BlockStmt"
  /\ Len(nodes) < MaxNest
  /\ pos + Len(params) <= MaxPos
  /\ frameStack' = bindParams(pushFrame(frameStack, NilFrame), params, pos)
  /\ funcStack' = Append(funcStack, [fnObj |-> "nil", skipWhole |-> FALSE])
  /\ nodes' = Append(nodes, Node("FuncLit", go, NilFrame))
  /\ pos' = pos + Len(params)
  /\ scopes' = Append(scopes,
        DeclareParams([Last(scopes) EXCEPT !.ownCtx = FALSE, !.ownR = FALSE,
                                            !.lits = @ + 1], params, pos))
  /\ last' = NoLast
  /\ UNCHANGED <<phase, skipFuncs, syncCalled>>

\* case *ast.BlockStmt (pre): a function body or a nested block.
EnterBlock ==
  /\ phase = "walk"
  /\ nodes # <<>>
  /\ Last(nodes).t = "BlockStmt" \/ ~Last(nodes).body
  /\ Len(nodes) < MaxNest
  /\ frameStack' = pushFrame(frameStack, currentFrame(frameStack))
  /\ nodes' = Append(nodes, Node("BlockStmt", FALSE, currentFrame(frameStack)))
  /\ scopes' = Append(scopes,
        IF Last(nodes).t = "BlockStmt"
          THEN [Last(scopes) EXCEPT !.ownCtx = FALSE, !.ownR = FALSE]
          ELSE Last(scopes))
  /\ last' = NoLast
  /\ UNCHANGED <<phase, skipFuncs, syncCalled, funcStack, pos>>

\* case *ast.AssignStmt (pre) with Tok == DEFINE: `name := <expr of type t>`.
AssignStmt(name, t) ==
  /\ phase = "walk"
  /\ nodes # <<>> /\ Last(nodes).t = "BlockStmt"
  /\ ~Owns(Last(scopes), name)
  /\ pos < MaxPos
  /\ pos' = pos + 1
  /\ frameStack' = bind(frameStack, name, t, pos + 1)
  /\ scopes' = [scopes EXCEPT ![Len(scopes)] = Declare(@, name, t, pos + 1)]
  /\ last' = NoLast
  /\ UNCHANGED <<phase, skipFuncs, syncCalled, funcStack, nodes>>

\* case *ast.AssignStmt (pre) for `name := <expr holding context.TODO()>`,
\* then case *ast.CallExpr (pre) for that context.TODO(): the walk reaches the
\* right-hand side after the statement itself.  Go evaluates the right-hand
\* side in the scope as it is before the declaration.
AssignStmtRhsCall(name, t) ==
  /\ phase = "walk"
  /\ nodes # <<>> /\ Last(nodes).t = "BlockStmt"
  /\ ~Owns(Last(scopes), name)
  /\ pos + 2 <= MaxPos
  /\ pos' = pos + 2
  /\ frameStack' = bind(frameStack, name, t, pos + 1)
  /\ scopes' = [scopes EXCEPT ![Len(scopes)] = Declare(@, name, t, pos + 1)]
  /\ LET skipWhole == Len(funcStack) > 0 /\ Last(funcStack).skipWhole
         inRange == flagNoGoroutines /\ insideSkipRange(nodes)
         fr == currentFrame(bind(frameStack, name, t, pos + 1))
         repl == IF skipWhole \/ inRange \/ fr = NilFrame
                   THEN "context.TODO()"
                   ELSE replacementFor(fr, pos + 2)
     IN last' = [NoLast EXCEPT !.op = "RhsCall", !.repl = repl, !.fr = fr, !.p = pos + 2,
                               !.skipWhole = skipWhole, !.inSkipRange = inRange,
                               !.want = Last(scopes)]
  /\ UNCHANGED <<phase, skipFuncs, syncCalled, funcStack, nodes>>

\* case *ast.ValueSpec (pre): `var name T` or `var name = <expr of type t>`.
ValueSpec(name, t) ==
  /\ phase = "walk"
  /\ nodes # <<>> /\ Last(nodes).t = "BlockStmt"
  /\ ~Owns(Last(scopes), name)
  /\ pos < MaxPos
  /\ pos' = pos + 1
  /\ frameStack' = bind(frameStack, name, t, pos + 1)
  /\ scopes' = [scopes EXCEPT ![Len(scopes)] = Declare(@, name, t, pos + 1)]
  /\ last' = NoLast
  /\ UNCHANGED <<phase, skipFuncs, syncCalled, funcStack, nodes>>

\* case *ast.AssignStmt (pre) for a `name := ...` that stands in the init
\* clause of an if, for or switch statement, or in a case clause, walked to
\* the end of that statement or clause.  No case of the walk pushes a frame
\* for these scopes (only FuncDecl, FuncLit and BlockStmt do), so the
\* binding is made in the frame of the block around the statement and the
\* frames pushed and popped for the statement's own blocks leave it there.
\* In Go the declaration's scope has ended: scopes is unchanged.
AssignStmtInit(name, t) ==
  /\ phase = "walk"
  /\ nodes # <<>> /\ Last(nodes).t = "BlockStmt"
  /\ pos < MaxPos
  /\ pos' = pos + 1
  /\ frameStack' = bind(frameStack, name, t, pos + 1)
  /\ last' = NoLast
  /\ UNCHANGED <<phase, skipFuncs, syncCalled, funcStack, nodes, scopes>>

\* case *ast.CallExpr (pre) for a zero-argument context.TODO().
CallExpr ==
  /\ phase = "walk"
  /\ nodes # <<>> /\ Last(nodes).t = "BlockStmt"
  /\ pos < MaxPos
  /\ pos' = pos + 1
  /\ LET skipWhole == Len(funcStack) > 0 /\ Last(funcStack).skipWhole
         inRange == flagNoGoroutines /\ insideSkipRange(nodes)
         fr == currentFrame(frameStack)
         repl == IF skipWhole \/ inRange \/ fr = NilFrame
                   THEN "context.TODO()"
                   ELSE replacementFor(fr, pos + 1)
     IN last' = [NoLast EXCEPT !.op = "CallExpr", !.repl = repl, !.fr = fr, !.p = pos + 1,
                               !.skipWhole = skipWhole, !.inSkipRange = inRange,
                               !.want = Last(scopes)]
  /\ UNCHANGED <<phase, skipFuncs, syncCalled, frameStack, funcStack,
                 nodes, scopes>>

\* The node under the closed one has had its body visited.
Closed(ns) ==
  IF Len(ns) > 1 /\ ns[Len(ns) - 1].t # "BlockStmt"
    THEN [Front(ns) EXCEPT ![Len(ns) - 1].body = TRUE]
    ELSE Front(ns)

\* case *ast.BlockStmt (post)
ExitBlock ==
  /\ phase = "walk"
  /\ nodes # <<>> /\ Last(nodes).t = "BlockStmt"
  /\ frameStack' = popFrame(frameStack)
  /\ nodes' = Closed(nodes)
  /\ scopes' = Front(scopes)
  /\ last' = [NoLast EXCEPT !.op = "ExitBlock", !.popped = currentFrame(frameStack),
                            !.saved = Last(nodes).saved]
  /\ UNCHANGED <<phase, skipFuncs, syncCalled, funcStack, pos>>

\* case *ast.FuncDecl (post)
ExitFuncDecl ==
  /\ phase = "walk"
  /\ nodes # <<>> /\ Last(nodes).t = "FuncDecl"
  /\ funcStack' = IF Len(funcStack) > 0 THEN Front(funcStack) ELSE funcStack
  /\ frameStack' = popFrame(frameStack)
  /\ nodes' = Front(nodes)
  /\ scopes' = Front(scopes)
  /\ last' = NoLast
  /\ phase' = "done"
  /\ UNCHANGED <<skipFuncs, syncCalled, pos>>

\* case *ast.FuncLit (post)
ExitFuncLit ==
  /\ phase = "walk"
  /\ nodes # <<>> /\ Last(nodes).t = "FuncLit" /\ Last(nodes).body
  /\ funcStack' = IF Len(funcStack) > 0 THEN Front(funcStack) ELSE funcStack
  /\ frameStack' = popFrame(frameStack)
  /\ nodes' = Front(nodes)
  /\ scopes' = Front(scopes)
  /\ last' = NoLast
  /\ UNCHANGED <<phase, skipFuncs, syncCalled, pos>>

\* The declarations the walked file may hold: a name and the type the type
\* checker gives it.
Decls ==
  { [name |-> "ctx", type |-> [ptr |-> 0, base |-> "context.Context"]],
    [name |-> "ctx", type |-> [ptr |-> 1, base |-> "context.Context"]],
    [name |-> "ctx", type |-> [ptr |-> 0, base |-> "int"]],
    [name |-> "ctx", type |-> NilType],
    [name |-> "r", type |-> [ptr |-> 1, base |-> "http.Request"]] }

\* The declarations whose right-hand side holds a context.TODO():
\* `ctx := context.TODO()` and `ctx := &c` for a c made from one.
RhsDecls == {d \in Decls : d.name = "ctx" /\ d.type.base = "context.Context"}

\* The parameter lists a function literal may have.
LitParamLists == { <<>>, <<Param("ctx", "context.Context", 0)>> }

\* ============================================== part_003: the line rewriter
\* A line is a sequence of lexical pieces in gofmt spacing: the pieces the
\* rewriter looks for are kept as they are written ("context.TODO()", "ctx",
\* ":=", "&", "{", "}", "(", ")", "go", "func", "\t", the quote characters),
\* any other identifier or literal text is "x".
TODO == "context.TODO()"

Background == "context.Background()"

\* The characters ", ' and ` as pieces.
DoubleQuote == "dquote"

SingleQuote == "squote"

Backtick == "backtick"

\* strings.Contains(line, pat) for a sequence of pieces pat
Contains(line, pat) ==
  \E k \in 1..(Len(line) - Len(pat) + 1) : SubSeq(line, k, k + Len(pat) - 1) = pat

\* strings.Count(line, piece)
Count(line, piece) == Cardinality({k \in 1..Len(line) : line[k] = piece})

\* strings.ReplaceAll(line, old, new) for single pieces
ReplaceAll(line, old, new) == [k \in 1..Len(line) |-> IF line[k] = old THEN new ELSE line[k]]

\* line[:len(line)-len(strings.TrimLeft(line, " \t"))]
RECURSIVE leadingTabs(_)
leadingTabs(line) ==
  IF line # <<>> /\ Head(line) = "\t" THEN <<"\t">> \o leadingTabs(Tail(line)) ELSE <<>>

TrimLeft(line) == SubSeq(line, Len(leadingTabs(line)) + 1, Len(line))

RECURSIVE TrimRight(_)
TrimRight(line) ==
  IF line # <<>> /\ Last(line) = "\t" THEN TrimRight(Front(line)) ELSE line

TrimSpace(line) == TrimRight(TrimLeft(line))

\* strings.TrimPrefix(trimmed, "go ")
TrimPrefixGo(line) == IF line # <<>> /\ Head(line) = "go" THEN Tail(line) ELSE line

\* append(lines[:k], append(ins, lines[k:]...)...) with k counted in lines
InsertAfter(ls, k, ins) == SubSeq(ls, 1, k) \o ins \o SubSeq(ls, k + 1, Len(ls))

\* The pieces in which strings.Index(line, "ctx") can find its match.
HoldsCtx(piece) == piece \in {"ctx", "ctxWithoutCancel"}

\* replaceStandaloneCtx: every \bctx\b is replaced, unless the FIRST "ctx" of
\* the line (found by strings.Index, inside a longer word as well) follows a
\* dot, in which case every match is kept.
replaceStandaloneCtx(line, replacement) ==
  LET hits == {k \in 1..Len(line) : HoldsCtx(line[k])}
      idx == CHOOSE k \in hits : \A m \in hits : k <= m
  IN IF ~ \E k \in 1..Len(line) : line[k] = "ctx" THEN line
     ELSE IF idx > 1 /\ line[idx - 1] = "." THEN line
     ELSE ReplaceAll(line, "ctx", replacement)

\* regexp \bctx\s*:=
HasCtxDefine(line) == Contains(line, <<"ctx", ":=">>)

\* checkLocalCtxDeclaration: \bctx\s*:=\s*(\&)? on the leftmost match
checkLocalCtxDeclaration(line) ==
  IF ~HasCtxDefine(line) THEN [ok |-> FALSE, type |-> ""]
  ELSE LET ks == {k \in 1..(Len(line) - 1) : line[k] = "ctx" /\ line[k + 1] = ":="}
           k == CHOOSE k \in ks : \A m \in ks : k <= m
       IN IF k + 2 <= Len(line) /\ line[k + 2] = "&"
            THEN [ok |-> TRUE, type |-> "*ctx"]
            ELSE [ok |-> TRUE, type |-> "ctx"]

\* checkLocalRParam: func\s*\([^)]*r\s+\*http\.Request[^)]*\)
checkLocalRParam(line) ==
  \E k \in 1..Len(line), m \in 1..Len(line), c \in 1..Len(line) :
    /\ k + 1 < m /\ m + 2 < c
    /\ line[k] = "func" /\ line[k + 1] = "("
    /\ SubSeq(line, m, m + 2) = <<"r", "*", "http.Request">>
    /\ line[c] = ")"
    /\ \A n \in (k + 2)..(m - 1) : line[n] # ")"

\* replaceCtxOrRInLine: a line holding `ctx :=` is returned as it is;
\* otherwise the line is scanned once with three quote flags, copied from a
\* `//` outside quotes on, and each context.TODO() outside quotes is written
\* as ctxType, else r.Context(), else itself.
RECURSIVE scanLine(_, _, _, _, _, _)
scanLine(line, ctxType, rAvailable, dq, sq, bt) ==
  IF line = <<>> THEN <<>>
  ELSE LET c == Head(line)
           rest == Tail(line)
       IN IF ~dq /\ ~sq /\ ~bt /\ c = "//" THEN line
          ELSE IF ~sq /\ ~bt /\ c = DoubleQuote THEN <<c>> \o scanLine(rest, ctxType, rAvailable, ~dq, sq, bt)
          ELSE IF ~dq /\ ~bt /\ c = SingleQuote THEN <<c>> \o scanLine(rest, ctxType, rAvailable, dq, ~sq, bt)
          ELSE IF ~dq /\ ~sq /\ c = Backtick THEN <<c>> \o scanLine(rest, ctxType, rAvailable, dq, sq, ~bt)
          ELSE IF ~dq /\ ~sq /\ ~bt /\ c = TODO
            THEN <<(IF ctxType # "" THEN ctxType
                    ELSE IF rAvailable THEN "r.Context()" ELSE TODO)>>
                   \o scanLine(rest, ctxType, rAvailable, dq, sq, bt)
          ELSE <<c>> \o scanLine(rest, ctxType, rAvailable, dq, sq, bt)

replaceCtxOrRInLine(line, ctxType, rAvailable) ==
  IF HasCtxDefine(line) THEN line
  ELSE scanLine(line, ctxType, rAvailable, FALSE, FALSE, FALSE)

\* hasCtxWithoutCancelDecl: \bctxWithoutCancel\s*:= on a line of start..end
hasCtxWithoutCancelDecl(ls, start, e) ==
  \E j \in start..e : j <= Len(ls) /\ Contains(ls[j], <<"ctxWithoutCancel", ":=">>)

\* shiftGoFuncBlocks: keys after insertAt move down with their ends, a block
\* around insertAt grows, the others stay.
shiftGoFuncBlocks(m, insertAt, addedLines) ==
  LET newKey(k) == IF k > insertAt THEN k + addedLines ELSE k
      newEnd(k) == IF k > insertAt \/ m[k] > insertAt THEN m[k] + addedLines ELSE m[k]
      keys == {newKey(k) : k \in DOMAIN m}
  IN [n \in keys |-> newEnd(CHOOSE k \in DOMAIN m : newKey(k) = n)]

\* The span boilerplate both go handlers insert, under the go line's indent.
spanLines(tabs) ==
  << tabs \o <<"\t", "x", ",", "ctxWithoutCancel", ":=", "x", "(">>,
     tabs \o <<"\t", "\t", "context.WithoutCancel", "(", "ctx", ")", ",">>,
     tabs \o <<"\t", "\t", "x", "{", "x", ":", DoubleQuote, "x", DoubleQuote, "}", ",">>,
     tabs \o <<"\t", ")">>,
     tabs \o <<"\t", "x", "(", ")">>,
     <<>> >>

\* The body loop of handleAnonymousGo on one line.
anonymousBodyLine(l) ==
  LET l1 == IF Contains(l, <<"ctx", ":=", Background>>) THEN <<>> ELSE l
      l2 == ReplaceAll(l1, TODO, "ctxWithoutCancel")
  IN IF Contains(l1, <<"context.WithoutCancel", "(">>) THEN l1
     ELSE IF Contains(l2, <<"}", "(", "ctx">>) THEN l2
     ELSE replaceStandaloneCtx(l2, "ctxWithoutCancel")

\* handleAnonymousGo: the boilerplate goes in after the first line of the
\* statement holding a `{` (unless a ctxWithoutCancel declaration follows),
\* then every later line of the statement is rewritten.
handleAnonymousGo(ls, start, e, m) ==
  LET braces == {j \in start..e : Contains(ls[j], <<"{">>)}
      s == CHOOSE j \in braces : \A k \in braces : j <= k
      alreadyDeclared == hasCtxWithoutCancelDecl(ls, s + 1, e + 1)
      insertLines == spanLines(leadingTabs(ls[s]))
      ls1 == IF alreadyDeclared THEN ls ELSE InsertAfter(ls, s, insertLines)
      m1 == IF alreadyDeclared THEN m ELSE shiftGoFuncBlocks(m, s + 1, Len(insertLines))
      e1 == IF alreadyDeclared THEN e ELSE e + Len(insertLines)
  IN IF braces = {} THEN [lines |-> ls, blocks |-> m, end |-> e]
     ELSE [lines |-> [j \in 1..Len(ls1) |->
                        IF j > s /\ j <= e1 THEN anonymousBodyLine(ls1[j]) ELSE ls1[j]],
           blocks |-> m1,
           end |-> e1]

\* The "multi-line calls" loop of handleNonAnonymousGo.
RECURSIVE continuationLines(_, _, _, _, _)
continuationLines(ls, j, e, openParens, tabs) ==
  IF j > e \/ openParens <= 0 THEN ls
  ELSE LET line == replaceStandaloneCtx(ReplaceAll(ls[j], TODO, "ctxWithoutCancel"),
                                        "ctxWithoutCancel")
       IN continuationLines([ls EXCEPT ![j] = tabs \o line], j + 1, e,
                            openParens + Count(line, "(") - Count(line, ")"), tabs)

\* handleNonAnonymousGo: `go f(...)` becomes the body of a new `go func() {`
\* ... `}()` that starts with the span boilerplate.
handleNonAnonymousGo(ls, start, e, m) ==
  LET tabs == leadingTabs(ls[start])
      openBlock == <<tabs \o <<"go", "func", "(", ")", "{">>>> \o spanLines(tabs)
      ls1 == InsertAfter(ls, start - 1, openBlock)
      start1 == start + Len(openBlock)
      e1 == e + Len(openBlock)
      trimmed == replaceStandaloneCtx(
                   ReplaceAll(TrimSpace(ls1[start1]), TODO, "ctxWithoutCancel"),
                   "ctxWithoutCancel")
      call == tabs \o <<"\t">> \o TrimSpace(TrimPrefixGo(trimmed))
      ls2 == [ls1 EXCEPT ![start1] = call]
      ls3 == continuationLines(ls2, start1 + 1, e1,
                               Count(call, "(") - Count(call, ")"), tabs)
      closeBlock == <<tabs \o <<"}", "(", ")">>>>
  IN [lines |-> InsertAfter(ls3, e1, closeBlock),
      blocks |-> shiftGoFuncBlocks(m, start1 - Len(openBlock),
                                   Len(openBlock) + Len(closeBlock)),
      end |-> e1 + Len(closeBlock)]

\* processGoStatement: a statement that mentions neither context.TODO() nor
\* ctx is left alone; otherwise the handler for its shape runs.  The shape is
\* read with strings.HasPrefix(trimmed, "go func"), which an identifier
\* starting with func (the piece "funcName") satisfies as well.
processGoStatement(ls, start, e, m) ==
  LET isAnonymous == LET t == TrimSpace(ls[start])
                     IN Len(t) >= 2 /\ t[1] = "go" /\ t[2] \in {"func", "funcName"}
      containsCtx == \E j \in start..e :
                        j <= Len(ls) /\ (Count(ls[j], TODO) > 0 \/ Count(ls[j], "ctx") > 0)
  IN IF ~containsCtx THEN [lines |-> ls, blocks |-> m, end |-> e]
     ELSE IF isAnonymous THEN handleAnonymousGo(ls, start, e, m)
     ELSE handleNonAnonymousGo(ls, start, e, m)

\* ---- parser.ParseFile, as far as RewriteContent uses its result
NetOpen(line) ==
  Count(line, "{") + Count(line, "(") - Count(line, "}") - Count(line, ")")

RECURSIVE NetOver(_, _, _)
NetOver(ls, j, e) == IF j > e THEN 0 ELSE NetOpen(ls[j]) + NetOver(ls, j + 1, e)

\* The line on which the statement starting on line j ends.
NodeEnd(ls, j) ==
  CHOOSE e \in j..Len(ls) :
    NetOver(ls, j, e) = 0 /\ \A k \in j..(e - 1) : NetOver(ls, j, k) > 0

\* ast.Inspect for *ast.GoStmt: Pos() line -> End() line
GoStmts(ls) ==
  LET starts == {j \in 1..Len(ls) : TrimLeft(ls[j]) # <<>> /\ Head(TrimLeft(ls[j])) = "go"}
  IN [j \in starts |-> NodeEnd(ls, j)]

\* The FuncDecls of the file in source order: the lines of Body.Lbrace and
\* Body.Rbrace and what pushScope reads off the parameter list.
RECURSIVE FuncDecls(_, _)
FuncDecls(ls, j) ==
  IF j > Len(ls) THEN <<>>
  ELSE IF ls[j] # <<>> /\ Head(ls[j]) = "func"
    THEN <<[lbrace |-> j, rbrace |-> NodeEnd(ls, j),
            baseCtxType |-> IF Contains(ls[j], <<"ctx", "context.Context">>) THEN "ctx"
                            ELSE IF Contains(ls[j], <<"ctx", "*", "context.Context">>) THEN "*ctx"
                            ELSE "",
            baseRAvailable |-> Contains(ls[j], <<"r", "*", "http.Request">>)]>>
         \o FuncDecls(ls, NodeEnd(ls, j) + 1)
    ELSE FuncDecls(ls, j + 1)

\* ---- processFunction
\* The brace scan of one line: the depth after it and the least depth on it.
RECURSIVE braceScan(_, _, _)
braceScan(line, d, minD) ==
  IF line = <<>> THEN [d |-> d, minD |-> minD]
  ELSE IF Head(line) = "}"
    THEN braceScan(Tail(line), d - 1, IF d - 1 < minD THEN d - 1 ELSE minD)
  ELSE IF Head(line) = "{" THEN braceScan(Tail(line), d + 1, minD)
  ELSE braceScan(Tail(line), d, minD)

\* The loop body up to the go-statement test: reset on a scope exit seen on
\* the line, then detection of a new local ctx or r at start-of-line depth.
beforeReplace(line) ==
  LET b == braceScan(line, depth, depth)
      ctxExit == localCtxDepth # -1 /\ b.minD < localCtxDepth
      rExit == localRDepth # -1 /\ b.minD < localRDepth
      lcd1 == IF ctxExit THEN -1 ELSE localCtxDepth
      ctx1 == IF ctxExit THEN currFuncScope.baseCtxType ELSE currFuncScope.ctxType
      lrd1 == IF rExit THEN -1 ELSE localRDepth
      r1 == IF rExit THEN currFuncScope.baseRAvailable ELSE currFuncScope.rAvailable
      decl == checkLocalCtxDeclaration(line)
      newCtx == lcd1 = -1 /\ decl.ok
      newR == lrd1 = -1 /\ checkLocalRParam(line)
  IN [d |-> b.d,
      localCtxDepth |-> IF newCtx THEN depth ELSE lcd1,
      ctxType |-> IF newCtx THEN decl.type ELSE ctx1,
      localRDepth |-> IF newR THEN depth ELSE lrd1,
      rAvailable |-> IF newR THEN TRUE ELSE r1]

\* "Commit final depth" and the safety reset that end an iteration.
commitLine(b) ==
  LET ctxExit == b.localCtxDepth # -1 /\ b.d < b.localCtxDepth
      rExit == b.localRDepth # -1 /\ b.d < b.localRDepth
  IN /\ depth' = b.d
     /\ localCtxDepth' = IF ctxExit THEN -1 ELSE b.localCtxDepth
     /\ localRDepth' = IF rExit THEN -1 ELSE b.localRDepth
     /\ currFuncScope' =
          [currFuncScope EXCEPT
             !.ctxType = IF ctxExit THEN currFuncScope.baseCtxType ELSE b.ctxType,
             !.rAvailable = IF rExit THEN currFuncScope.baseRAvailable ELSE b.rAvailable]

InLoop == pc = "loop" /\ i <= end /\ i <= Len(lines)

\* RewriteContent up to walkFuncs: parse, split, collect the go statements.
RewriteContent ==
  /\ pc = "start"
  /\ pc' = "walk"
  /\ lines' = src
  /\ goFuncBlocks' = GoStmts(src)
  /\ fns' = FuncDecls(src, 1)
  /\ addedLinesCount' = 0
  /\ UNCHANGED <<src, run, out1, currFuncScope, i, end, ogEnd, depth,
                 localCtxDepth, localRDepth, site, astVars, fileVars>>

\* walkFuncs reaches a FuncDecl: pushScope, then processFunction's prologue.
pushScope ==
  /\ pc = "walk" /\ fns # <<>>
  /\ LET fn == Head(fns)
     IN /\ currFuncScope' = [baseCtxType |-> fn.baseCtxType,
                             baseRAvailable |-> fn.baseRAvailable,
                             ctxType |-> fn.baseCtxType,
                             rAvailable |-> fn.baseRAvailable,
                             startLine |-> addedLinesCount + fn.lbrace,
                             endLine |-> addedLinesCount + fn.rbrace]
        /\ i' = addedLinesCount + fn.lbrace
        /\ end' = addedLinesCount + fn.rbrace
        /\ ogEnd' = addedLinesCount + fn.rbrace
  /\ depth' = 0 /\ localCtxDepth' = -1 /\ localRDepth' = -1
  /\ pc' = "loop"
  /\ UNCHANGED <<src, run, out1, lines, goFuncBlocks, addedLinesCount, fns, site, astVars, fileVars>>

\* One iteration on a line that is not handled as a go statement.
processLine ==
  /\ InLoop
  /\ LET b == beforeReplace(lines[i])
         new == replaceCtxOrRInLine(lines[i], b.ctxType, b.rAvailable)
     IN /\ ~(i \in DOMAIN goFuncBlocks /\ b.ctxType # "")
        /\ lines' = [lines EXCEPT ![i] = new]
        /\ site' = [op |-> "line", at |-> i, before |-> lines[i], after |-> new,
                    ctxType |-> b.ctxType]
        /\ commitLine(b)
  /\ i' = i + 1
  /\ UNCHANGED <<pc, src, run, out1, goFuncBlocks, addedLinesCount, fns, end, ogEnd, astVars, fileVars>>

\* One iteration on the first line of a go statement while a ctx is known.
processGo ==
  /\ InLoop
  /\ LET b == beforeReplace(lines[i])
         g == processGoStatement(lines, i, goFuncBlocks[i], goFuncBlocks)
     IN /\ i \in DOMAIN goFuncBlocks /\ b.ctxType # ""
        /\ lines' = g.lines
        /\ goFuncBlocks' = g.blocks
        /\ i' = g.end + 1
        /\ end' = end + (g.end - goFuncBlocks[i])
        /\ site' = [op |-> "go", at |-> i, before |-> lines[i], after |-> g.lines[i],
                    ctxType |-> b.ctxType]
        /\ commitLine(b)
  /\ UNCHANGED <<pc, src, run, out1, addedLinesCount, fns, ogEnd, astVars, fileVars>>

\* The loop is over: processFunction's epilogue, then popScope.
popScope ==
  /\ pc = "loop" /\ ~(i <= end /\ i <= Len(lines))
  /\ addedLinesCount' = addedLinesCount + (end - ogEnd)
  /\ fns' = Tail(fns)
  /\ pc' = "walk"
  /\ UNCHANGED <<src, run, out1, lines, goFuncBlocks, currFuncScope, i, end, ogEnd,
                 depth, localCtxDepth, localRDepth, site, astVars, fileVars>>

\* walkFuncs is over: strings.Join(lines, "\n") is returned.
Return ==
  /\ pc = "walk" /\ fns = <<>>
  /\ pc' = "done"
  /\ out1' = IF run = 1 THEN lines ELSE out1
  /\ UNCHANGED <<src, run, lines, goFuncBlocks, addedLinesCount, fns, currFuncScope,
                 i, end, ogEnd, depth, localCtxDepth, localRDepth, site, astVars, fileVars>>

\* The tool is run once more, on the text it produced.
RewriteAgain ==
  /\ pc = "done" /\ run = 1
  /\ run' = 2
  /\ src' = lines
  /\ pc' = "start"
  /\ UNCHANGED <<out1, lines, goFuncBlocks, addedLinesCount, fns, currFuncScope,
                 i, end, ogEnd, depth, localCtxDepth, localRDepth, site, astVars, fileVars>>

\* ---- the source texts RewriteContent is given
\* Bodies of one function declaration, line by line: blocks, else branches,
\* := declarations of ctx (a value, the address of one, a call returning a
\* pointer), placeholders, uses of ctx, a one-line block with its own ctx,
\* and go statements in both shapes.  Only texts that compile are built: ctx
\* is declared once per scope and used only where it is visible.
LineOpen == <<"x", "{">>

LineClose == <<"}">>

LineElse == <<"}", "x", "{">>

LineDecl(rhs) == <<"ctx", ":=">> \o rhs

LineTodo == <<"x", "(", TODO, ")">>

LineUse == <<"x", "(", "ctx", ")">>

LineInline == <<"x", "{", "ctx", ":=", Background, ";", "x", "(", "ctx", ")", "}">>

LineGoCall == <<"go", "x", "(", "ctx", ")">>

LineGoOpen == <<"go", "func", "(", ")", "{">>

LineGoClose == <<"}", "(", ")">>

DeclRhs == { <<Background>>, <<"&", "x">>, <<"ptrOf()">> }

Header(params) == <<"func", "x", "(">> \o params \o <<")", "{">>

HeaderParams == { <<>>, <<"ctx", "context.Context">>, <<"ctx", "*", "context.Context">> }

\* st.opens: the open scopes, innermost last, each with whether it is a go
\* literal's body and whether it declares ctx itself.
Visible(st) == \E k \in 1..Len(st.opens) : st.opens[k].own

Push(st, go) ==
  [st EXCEPT !.opens = Append(@, [go |-> go, own |-> FALSE]),
             !.gos = IF go THEN @ + 1 ELSE @]

Pop(st) == [st EXCEPT !.opens = Front(@)]

Own(st) == [st EXCEPT !.opens[Len(st.opens)].own = TRUE, !.decls = @ + 1]

\* The lines that may come next, each with the state after it.
Continuations(st) ==
  LET top == Last(st.opens)
      nested == Len(st.opens) > 1
  IN   {<<LineTodo, st>>}
    \cup (IF Visible(st) THEN {<<LineUse, st>>} ELSE {})
    \cup (IF Len(st.opens) <= MaxBlock THEN {<<LineOpen, Push(st, FALSE)>>} ELSE {})
    \cup (IF nested /\ ~top.go
            THEN {<<LineClose, Pop(st)>>, <<LineElse, Push(Pop(st), FALSE)>>} ELSE {})
    \cup (IF ~top.own /\ st.decls < MaxDecls
            THEN {<<LineDecl(rhs), Own(st)>> : rhs \in DeclRhs} ELSE {})
    \cup (IF st.decls < MaxDecls THEN {<<LineInline, [st EXCEPT !.decls = @ + 1]>>} ELSE {})
    \cup (IF Visible(st) /\ st.gos < MaxGo
            THEN {<<LineGoCall, [st EXCEPT !.gos = @ + 1]>>} ELSE {})
    \cup (IF Len(st.opens) <= MaxBlock /\ st.gos < MaxGo
            THEN {<<LineGoOpen, Push(st, TRUE)>>} ELSE {})
    \cup (IF nested /\ top.go THEN {<<LineGoClose, Pop(st)>>} ELSE {})

RECURSIVE Bodies(_, _)
Bodies(n, st) ==
  (IF Len(st.opens) = 1 THEN {<<>>} ELSE {})
    \cup (IF n = 0 \/ n < Len(st.opens) - 1 THEN {}
          ELSE UNION { {<<c[1]>> \o b : b \in Bodies(n - 1, c[2])} : c \in Continuations(st) })

Programs(n) ==
  UNION { { <<Header(params)>> \o b \o <<LineClose>> :
              b \in Bodies(n, [opens |-> <<[go |-> FALSE, own |-> params # <<>>]>>,
                                     gos |-> 0, decls |-> 0]) \ {<<>>} } :
          params \in HeaderParams }

NoSite == [op |-> "none", at |-> 0, before |-> <<>>, after |-> <<>>, ctxType |-> ""]

NoFuncScope ==
  [baseCtxType |-> "", baseRAvailable |-> FALSE, ctxType |-> "", rAvailable |-> FALSE,
   startLine |-> 0, endLine |-> 0]

\* The line rewriter before RewriteContent is called on text t.
RWStart(t) ==
  /\ pc = "start" /\ src = t /\ run = 1 /\ out1 = <<>> /\ lines = <<>>
  /\ goFuncBlocks = <<>> /\ addedLinesCount = 0 /\ fns = <<>>
  /\ currFuncScope = NoFuncScope
  /\ i = 0 /\ end = 0 /\ ogEnd = 0 /\ depth = 0
  /\ localCtxDepth = -1 /\ localRDepth = -1 /\ site = NoSite

\* The line rewriter is not in use.
RWIdle ==
  /\ pc = "idle" /\ src = <<>> /\ run = 1 /\ out1 = <<>> /\ lines = <<>>
  /\ goFuncBlocks = <<>> /\ addedLinesCount = 0 /\ fns = <<>>
  /\ currFuncScope = NoFuncScope
  /\ i = 0 /\ end = 0 /\ ogEnd = 0 /\ depth = 0
  /\ localCtxDepth = -1 /\ localRDepth = -1 /\ site = NoSite

\* The AST rewriter before its first pass.
ASTStart ==
  /\ phase = "scan"
  /\ skipFuncs = {}
  /\ syncCalled = {}
  /\ frameStack = <<>>
  /\ funcStack = <<>>
  /\ nodes = <<>>
  /\ pos = 0
  /\ last = NoLast
  /\ scopes = <<>>

\* No file is involved: RewriteContent is called on a string.
NoFile ==
  /\ disk = <<>>
  /\ cmd = <<>> /\ argi = 0 /\ filei = 0 /\ rewritten = {} /\ notices = {}

Init == ASTStart /\ NoFile /\ RWIdle

Next ==
  \/ (\E target \in Funcs \cup {"FuncLit", "unresolved"} : InspectGoStmt(target)) /\ UNCHANGED <<rwVars, fileVars>>
  \/ (\E f \in Funcs : InspectCall(f)) /\ UNCHANGED <<rwVars, fileVars>>
  \/ StartWalk /\ UNCHANGED <<rwVars, fileVars>>
  \/ (\E f \in Funcs, params \in ParamLists : EnterFuncDecl(f, params)) /\ UNCHANGED <<rwVars, fileVars>>
  \/ (\E go \in BOOLEAN, params \in LitParamLists : EnterFuncLit(go, params)) /\ UNCHANGED <<rwVars, fileVars>>
  \/ EnterBlock /\ UNCHANGED <<rwVars, fileVars>>
  \/ (\E d \in Decls : AssignStmt(d.name, d.type)) /\ UNCHANGED <<rwVars, fileVars>>
  \/ (\E d \in Decls : ValueSpec(d.name, d.type)) /\ UNCHANGED <<rwVars, fileVars>>
  \/ (\E d \in RhsDecls : AssignStmtRhsCall(d.name, d.type)) /\ UNCHANGED <<rwVars, fileVars>>
  \/ CallExpr /\ UNCHANGED <<rwVars, fileVars>>
  \/ ExitBlock /\ UNCHANGED <<rwVars, fileVars>>
  \/ ExitFuncDecl /\ UNCHANGED <<rwVars, fileVars>>
  \/ ExitFuncLit /\ UNCHANGED <<rwVars, fileVars>>

Spec == Init /\ [][Next]_vars

\* The AST rewriter on files that also hold := declarations in init clauses
\* and case clauses.
NextInit ==
  \/ Next
  \/ (\E d \in Decls : AssignStmtInit(d.name, d.type)) /\ UNCHANGED <<rwVars, fileVars>>

SpecInit == Init /\ [][NextInit]_vars

\* case *ast.ValueSpec at package level: no FuncDecl is open, so no frame
\* was pushed. fr := currentFrame() is used without a nil test; writing a
\* field of the nil frame is a run-time panic that ends the program.
ValueSpecPackage(name, t) ==
  /\ phase = "walk"
  /\ nodes = <<>>
  /\ pos < MaxPos
  /\ pos' = pos + 1
  /\ LET fr == currentFrame(frameStack)
         sets == /\ t # NilType
                 /\ \/ name = "ctx" /\ isContextType(t) # ctxNone
                    \/ name = "r" /\ isRequestPtrType(t)
     IN IF sets /\ fr = NilFrame
          THEN phase' = "panic" /\ frameStack' = frameStack
          ELSE /\ phase' = phase
               /\ frameStack' = IF sets THEN bind(frameStack, name, t, pos + 1) ELSE frameStack
  /\ last' = NoLast
  /\ UNCHANGED <<skipFuncs, syncCalled, funcStack, nodes, scopes>>

NextPkg ==
  \/ Next
  \/ (\E d \in Decls : ValueSpecPackage(d.name, d.type)) /\ UNCHANGED <<rwVars, fileVars>>

SpecPkg == Init /\ [][NextPkg]_vars

\* The line rewriter of part_003 on every text of Programs(MaxBody), run twice.
InitRW == ASTStart /\ NoFile /\ (\E t \in Programs(MaxBody) : RWStart(t))

NextRW ==
  \/ RewriteContent
  \/ pushScope
  \/ processLine
  \/ processGo
  \/ popScope
  \/ Return
  \/ RewriteAgain

SpecRW == InitRW /\ [][NextRW]_vars

\* ======================================================= claims, AST rewriter
\* A site at which the resolver makes its choice: a context.TODO() call that
\* is neither in a skipped function nor in a suppressed goroutine body.
Resolved == last.op = "CallExpr" /\ ~last.skipWhole /\ ~last.inSkipRange

FormOf(kind) == IF kind = ctxValue THEN "ctx" ELSE "*ctx"

\* C1: in a function declaration, a context.TODO() under a ctx that Go's
\* scoping binds to a context or pointer-to-context declaration (the inner one
\* inside a re-declaring block, the outer one again after that block) is
\* replaced according to that declaration's kind, the frame holding exactly
\* that kind and position; and when a block is left the current frame is
\* exactly the frame that was current just before the block was entered.
C1_BlockShadowingRestored ==
  /\ last.op = "ExitBlock" =>
        /\ currentFrame(frameStack) = last.saved
        /\ last.saved # NilFrame
  /\ (Resolved /\ last.want.lits = 0 /\ last.want.ctx \in {ctxValue, ctxPointer}) =>
        /\ last.repl = FormOf(last.want.ctx)
        /\ last.fr.ctxKind = last.want.ctx
        /\ last.fr.ctxAvailPos = last.want.ctxPos

\* C1 witness: a block that re-declared ctx as a pointer under a value ctx has
\* just been left and the value binding is current again.
C1_Witness ==
  /\ last.op = "ExitBlock"
  /\ last.popped.ctxKind = ctxPointer
  /\ last.saved.ctxKind = ctxValue
  /\ currentFrame(frameStack).ctxKind = ctxValue
  /\ last.popped.ctxAvailPos > last.saved.ctxAvailPos

\* C11: a context.TODO() on the right-hand side of the statement that declares
\* ctx is left as it is: it never becomes the name the statement is declaring,
\* in either form.
C11_DeclaringStatementNotSelfResolved ==
  last.op = "RhsCall" => last.repl = "context.TODO()"

\* C12: a context.TODO() inside a function literal that is not launched with
\* go, at which Go's scoping makes a ctx of context kind visible (the
\* enclosing function's when the literal declares none), is replaced with
\* that binding's form.
C12_ClosureInheritsEnclosingBinding ==
  (Resolved /\ last.want.lits > 0 /\ ~insideSkipRange(nodes)
     /\ last.want.ctx \in {ctxValue, ctxPointer})
    => last.repl = FormOf(last.want.ctx)

\* C6: inside the declaration of a function that is only ever a go target,
\* no context.TODO() is replaced, function literals in its body included.
C6_SkippedFunctionUntouched ==
  (last.op = "CallExpr" /\ Len(funcStack) > 0 /\ funcStack[1].fnObj \in skipFuncs
     /\ funcStack[1].fnObj \notin syncCalled)
    => last.repl = "context.TODO()"

\* C7: a function is in the skip set iff it is a go target and is never
\* called synchronously; one that is also called synchronously is resolved
\* like a function that is never launched.
C7_SkipSetOnlyGoTargets ==
  /\ \A f \in skipFuncs : f \notin syncCalled
  /\ (last.op = "CallExpr" /\ Len(funcStack) = 1 /\ funcStack[1].fnObj \in syncCalled)
       => last.repl = replacementFor(last.fr, last.p)

RECURSIVE SortedKeys(_)
SortedKeys(S) ==
  IF S = {} THEN <<>>
  ELSE LET mn == CHOOSE k \in S : \A m \in S : k <= m
       IN <<mn>> \o SortedKeys(S \ {mn})

\* shiftGoFuncBlocks of main.go: the map is changed in place, key by key in
\* ascending order.
RECURSIVE main_shiftKeys(_, _, _, _)
main_shiftKeys(m, keys, insertAt, addedLines) ==
  IF keys = <<>> THEN m
  ELSE LET k == Head(keys)
           oldEnd == m[k]
           moved == [x \in (DOMAIN m \cup {k + addedLines}) \ {k} |->
                        IF x = k + addedLines THEN oldEnd + addedLines ELSE m[x]]
       IN IF k > insertAt THEN main_shiftKeys(moved, Tail(keys), insertAt, addedLines)
          ELSE IF k < insertAt /\ oldEnd >= insertAt
            THEN main_shiftKeys([m EXCEPT ![k] = oldEnd + addedLines], Tail(keys),
                                insertAt, addedLines)
          ELSE main_shiftKeys(m, Tail(keys), insertAt, addedLines)

main_shiftGoFuncBlocks(m, insertAt, addedLines) ==
  main_shiftKeys(m, SortedKeys(DOMAIN m), insertAt, addedLines)

WithoutCancelDecl == <<"ctxWithoutCancel", ":=", "context.WithoutCancel", "(", "ctx", ")">>

\* regexp func\s*\([^)]*ctx\s+context\.Context
main_hasCtxParam(line) ==
  \E k \in 1..Len(line), m \in 1..Len(line) :
    /\ k + 1 < m /\ m < Len(line)
    /\ line[k] = "func" /\ line[k + 1] = "("
    /\ line[m] = "ctx" /\ line[m + 1] = "context.Context"
    /\ \A n \in (k + 2)..(m - 1) : line[n] # ")"

main_anonymousBodyLine(l) ==
  LET l1 == IF Contains(l, <<"ctx", ":=", Background>>) THEN <<>> ELSE l
  IN IF Contains(l1, <<"ctxWithoutCancel", ":=">>) THEN l1
     ELSE replaceStandaloneCtx(ReplaceAll(l1, TODO, "ctxWithoutCancel"), "ctxWithoutCancel")

\* handleAnonymousGo of main.go: a literal taking ctx gets the declaration in
\* front of the go statement (once per function) and its last line rewritten;
\* any other literal gets it as the first line of its body, which is rewritten.
main_handleAnonymousGo(hasCWC, ls, start, e, m) ==
  LET braces == {j \in start..e : Contains(ls[j], <<"{">>)}
      openBraceLine == CHOOSE j \in braces : \A k \in braces : j <= k
      tabs == leadingTabs(ls[openBraceLine])
      same == [lines |-> ls, blocks |-> m, start |-> start, end |-> e, hasCWC |-> hasCWC]
      before == InsertAfter(ls, start - 1, <<tabs \o WithoutCancelDecl>>)
      inside == InsertAfter(ls, openBraceLine, <<tabs \o <<"\t">> \o WithoutCancelDecl>>)
  IN IF braces = {} THEN same
     ELSE IF main_hasCtxParam(ls[start])
       THEN IF hasCWC THEN same
            ELSE [lines |-> [before EXCEPT ![e + 1] =
                                replaceStandaloneCtx(before[e + 1], "ctxWithoutCancel")],
                  blocks |-> main_shiftGoFuncBlocks(m, start, 1),
                  start |-> start, end |-> e + 1, hasCWC |-> TRUE]
     ELSE IF hasCtxWithoutCancelDecl(ls, openBraceLine + 1, e + 1) THEN same
     ELSE [lines |-> [j \in 1..Len(inside) |->
                        IF j > openBraceLine /\ j <= e + 1
                          THEN main_anonymousBodyLine(inside[j]) ELSE inside[j]],
           blocks |-> main_shiftGoFuncBlocks(m, start, 1),
           start |-> start, end |-> e + 1, hasCWC |-> hasCWC]

\* handleNonAnonymousGo of main.go
main_handleNonAnonymousGo(hasCWC, ls, start, e, m) ==
  LET tabs == leadingTabs(ls[start])
      openBlock == << tabs \o <<"go", "func", "(", ")", "{">>,
                      tabs \o <<"\t">> \o WithoutCancelDecl >>
      ls1 == InsertAfter(ls, start - 1, openBlock)
      start1 == start + Len(openBlock)
      e1 == e + Len(openBlock)
      trimmed == replaceStandaloneCtx(
                   ReplaceAll(TrimSpace(ls1[start1]), TODO, "ctxWithoutCancel"),
                   "ctxWithoutCancel")
      call == tabs \o <<"\t">> \o TrimSpace(TrimPrefixGo(trimmed))
      ls3 == continuationLines([ls1 EXCEPT ![start1] = call], start1 + 1, e1,
                               Count(call, "(") - Count(call, ")"), tabs)
  IN [lines |-> InsertAfter(ls3, e1, <<tabs \o <<"}", "(", ")">>>>),
      blocks |-> main_shiftGoFuncBlocks(m, start1 - Len(openBlock), Len(openBlock) + 1),
      start |-> e1, end |-> e1 + 1, hasCWC |-> hasCWC]

\* processGoStatement of main.go
main_processGoStatement(hasCWC, ls, start, e, m) ==
  LET isAnonymous == LET t == TrimSpace(ls[start])
                     IN Len(t) >= 2 /\ t[1] = "go" /\ t[2] \in {"func", "funcName"}
      containsCtx == \E j \in start..e :
                        j <= Len(ls) /\ (Count(ls[j], TODO) > 0 \/ Count(ls[j], "ctx") > 0)
  IN IF ~containsCtx
       THEN [lines |-> ls, blocks |-> m, start |-> start, end |-> e, hasCWC |-> hasCWC]
     ELSE IF isAnonymous THEN main_handleAnonymousGo(hasCWC, ls, start, e, m)
     ELSE main_handleNonAnonymousGo(hasCWC, ls, start, e, m)

\* ---- processLines of main.go
main_NoFuncScope == [ctxType |-> "", rAvailable |-> FALSE, hasCtxWithoutCancel |-> FALSE]

\* RewriteContent of main.go up to walkFuncs.
main_RewriteContent ==
  /\ pc = "start"
  /\ pc' = "walk"
  /\ lines' = src
  /\ goFuncBlocks' = GoStmts(src)
  /\ fns' = FuncDecls(src, 1)
  /\ UNCHANGED <<src, run, out1, addedLinesCount, currFuncScope, i, end, ogEnd, depth,
                 localCtxDepth, localRDepth, site, astVars, fileVars>>

\* pushScope(params), then the prologue of processLines: the block's lines
\* are taken from the parse of the original text.
main_pushScope ==
  /\ pc = "walk" /\ fns # <<>>
  /\ LET fn == Head(fns)
     IN /\ currFuncScope' =
             [ctxType |-> fn.baseCtxType,
              rAvailable |-> fn.baseRAvailable,
              hasCtxWithoutCancel |-> hasCtxWithoutCancelDecl(lines, fn.lbrace, fn.rbrace)]
        /\ i' = fn.lbrace
        /\ end' = fn.rbrace
  /\ depth' = 0 /\ localCtxDepth' = -1 /\ localRDepth' = -1
  /\ pc' = "loop"
  /\ UNCHANGED <<src, run, out1, lines, goFuncBlocks, addedLinesCount, fns, ogEnd, site,
                 astVars, fileVars>>

\* The loop body up to the go-statement test: the depth is moved past the
\* line first, then a new local ctx or r is detected at that depth.
main_beforeReplace(line) ==
  LET d == depth + Count(line, "{") - Count(line, "}")
      decl == checkLocalCtxDeclaration(line)
      newCtx == localCtxDepth = -1 /\ decl.ok
      newR == localRDepth = -1 /\ checkLocalRParam(line)
  IN [d |-> d,
      localCtxDepth |-> IF newCtx THEN d ELSE localCtxDepth,
      ctxType |-> IF newCtx THEN decl.type ELSE currFuncScope.ctxType,
      localRDepth |-> IF newR THEN d ELSE localRDepth,
      rAvailable |-> IF newR THEN TRUE ELSE currFuncScope.rAvailable]

\* "Reset ctx/r on scope exit", which ends an iteration.
main_resetOnExit(b, hasCWC) ==
  LET ctxExit == b.localCtxDepth # -1 /\ b.d < b.localCtxDepth
      rExit == b.localRDepth # -1 /\ b.d < b.localRDepth
  IN /\ depth' = b.d
     /\ localCtxDepth' = IF ctxExit THEN -1 ELSE b.localCtxDepth
     /\ localRDepth' = IF rExit THEN -1 ELSE b.localRDepth
     /\ currFuncScope' = [ctxType |-> IF ctxExit THEN "" ELSE b.ctxType,
                          rAvailable |-> IF rExit THEN FALSE ELSE b.rAvailable,
                          hasCtxWithoutCancel |-> hasCWC]

main_processLine ==
  /\ InLoop
  /\ LET b == main_beforeReplace(lines[i])
         new == replaceCtxOrRInLine(lines[i], b.ctxType, b.rAvailable)
     IN /\ ~(i \in DOMAIN goFuncBlocks /\ b.ctxType # "")
        /\ lines' = [lines EXCEPT ![i] = new]
        /\ site' = [op |-> "line", at |-> i, before |-> lines[i], after |-> new,
                    ctxType |-> b.ctxType]
        /\ main_resetOnExit(b, currFuncScope.hasCtxWithoutCancel)
  /\ i' = i + 1
  /\ UNCHANGED <<pc, src, run, out1, goFuncBlocks, addedLinesCount, fns, end, ogEnd, astVars, fileVars>>

main_processGo ==
  /\ InLoop
  /\ LET b == main_beforeReplace(lines[i])
         g == main_processGoStatement(currFuncScope.hasCtxWithoutCancel, lines, i,
                                      goFuncBlocks[i], goFuncBlocks)
     IN /\ i \in DOMAIN goFuncBlocks /\ b.ctxType # ""
        /\ lines' = g.lines
        /\ goFuncBlocks' = g.blocks
        /\ i' = g.start + 1
        /\ end' = end + (g.end - goFuncBlocks[i])
        /\ site' = [op |-> "go", at |-> i, before |-> lines[i], after |-> g.lines[i],
                    ctxType |-> b.ctxType]
        /\ main_resetOnExit(b, g.hasCWC)
  /\ UNCHANGED <<pc, src, run, out1, addedLinesCount, fns, ogEnd, astVars, fileVars>>

main_popScope ==
  /\ pc = "loop" /\ ~(i <= end /\ i <= Len(lines))
  /\ fns' = Tail(fns)
  /\ pc' = "walk"
  /\ UNCHANGED <<src, run, out1, lines, goFuncBlocks, addedLinesCount, currFuncScope,
                 i, end, ogEnd, depth, localCtxDepth, localRDepth, site, astVars, fileVars>>

main_Return ==
  /\ pc = "walk" /\ fns = <<>>
  /\ pc' = "done"
  /\ out1' = lines
  /\ UNCHANGED <<src, run, lines, goFuncBlocks, addedLinesCount, fns, currFuncScope,
                 i, end, ogEnd, depth, localCtxDepth, localRDepth, site, astVars, fileVars>>

\* main.go's RewriteContent on every text of Programs(MaxBody).
InitLines ==
  /\ ASTStart /\ NoFile
  /\ \E t \in Programs(MaxBody) :
       /\ pc = "start" /\ src = t /\ run = 1 /\ out1 = <<>> /\ lines = <<>>
       /\ goFuncBlocks = <<>> /\ addedLinesCount = 0 /\ fns = <<>>
       /\ currFuncScope = main_NoFuncScope
       /\ i = 0 /\ end = 0 /\ ogEnd = 0 /\ depth = 0
       /\ localCtxDepth = -1 /\ localRDepth = -1 /\ site = NoSite

NextLines ==
  \/ main_RewriteContent
  \/ main_pushScope
  \/ main_processLine
  \/ main_processGo
  \/ main_popScope
  \/ main_Return

SpecLines == InitLines /\ [][NextLines]_vars

\* ---- replaceStandaloneCtx on its own (SpecWord)
\* The words a line handed to replaceStandaloneCtx is made of.
WordPieces == {"ctx", ".", "x", ",", "ctxWithoutCancel"}

RECURSIVE WordLines(_)
WordLines(n) ==
  IF n = 0 THEN {<<>>}
  ELSE WordLines(n - 1) \cup
       {Append(l, w) : <<l, w>> \in {<<l, w>> \in WordLines(n - 1) \X WordPieces : Len(l) = n - 1}}

\* One call replaceStandaloneCtx(line, "ctxWithoutCancel"), as the go
\* handlers make it.
callReplaceStandaloneCtx ==
  /\ pc = "start"
  /\ pc' = "done"
  /\ lines' = <<replaceStandaloneCtx(src[1], "ctxWithoutCancel")>>
  /\ site' = [op |-> "replaceStandaloneCtx", at |-> 1, before |-> src[1],
              after |-> replaceStandaloneCtx(src[1], "ctxWithoutCancel"), ctxType |-> ""]
  /\ UNCHANGED <<src, run, out1, goFuncBlocks, addedLinesCount, fns, currFuncScope,
                 i, end, ogEnd, depth, localCtxDepth, localRDepth, astVars, fileVars>>

InitWord ==
  /\ ASTStart /\ NoFile
  /\ \E l \in WordLines(MaxWord) \ {<<>>} :
       /\ pc = "start" /\ src = <<l>> /\ run = 1 /\ out1 = <<>> /\ lines = <<>>
       /\ goFuncBlocks = <<>> /\ addedLinesCount = 0 /\ fns = <<>>
       /\ currFuncScope = NoFuncScope
       /\ i = 0 /\ end = 0 /\ ogEnd = 0 /\ depth = 0
       /\ localCtxDepth = -1 /\ localRDepth = -1 /\ site = NoSite

NextWord == callReplaceStandaloneCtx

SpecWord == InitWord /\ [][NextWord]_vars

\* The declaration of the launched function.
TargetDecl ==
  << <<"func", "f", "(", "ctx", "context.Context", ")", "{">>,
     <<"\t", "x", "(", TODO, ")">>,
     <<"}">> >>

\* ---- functions with several go statements (SpecShift)
\* A function with a ctx parameter whose body is made of `go x(ctx)` lines
\* and plain calls, so that launches stand next to each other and at every
\* small distance; a second function with a placeholder may follow.
RECURSIVE ShiftBodies(_)
ShiftBodies(n) ==
  IF n = 0 THEN {<<>>}
  ELSE ShiftBodies(n - 1) \cup
       {Append(b, l) : <<b, l>> \in {<<b, l>> \in ShiftBodies(n - 1) \X {LineGoCall, LineUse} :
                                       Len(b) = n - 1}}

ShiftPrograms(n) ==
  { <<Header(<<"ctx", "context.Context">>)>> \o b \o <<LineClose>> \o tail :
      <<b, tail>> \in (ShiftBodies(n) \ {<<>>}) \X { <<>>, TargetDecl } }

\* main.go's RewriteContent on every text of ShiftPrograms(MaxShift).
InitShift ==
  /\ ASTStart /\ NoFile
  /\ \E t \in ShiftPrograms(MaxShift) :
       /\ pc = "start" /\ src = t /\ run = 1 /\ out1 = <<>> /\ lines = <<>>
       /\ goFuncBlocks = <<>> /\ addedLinesCount = 0 /\ fns = <<>>
       /\ currFuncScope = main_NoFuncScope
       /\ i = 0 /\ end = 0 /\ ogEnd = 0 /\ depth = 0
       /\ localCtxDepth = -1 /\ localRDepth = -1 /\ site = NoSite

SpecShift == InitShift /\ [][NextLines]_vars

\* ------------------------------------------------ RewriteFile (SpecFile)
\* parser.ParseFile accepts the text: one or more declarations with balanced
\* braces and parentheses.
Parses(t) ==
  /\ t # <<>> /\ Head(t) # <<>> /\ Head(Head(t)) = "func"
  /\ NetOver(t, 1, Len(t)) = 0
  /\ \A k \in 1..Len(t) : NetOver(t, 1, k) >= 0

\* os.ReadFile(filename): the bytes of the file, or an error that is returned.
main_RewriteFile ==
  /\ pc = "file"
  /\ \E ok \in BOOLEAN :
       IF ok THEN pc' = "start" /\ src' = disk
       ELSE pc' = "returned" /\ src' = src
  /\ UNCHANGED <<run, out1, lines, goFuncBlocks, addedLinesCount, fns, currFuncScope,
                 i, end, ogEnd, depth, localCtxDepth, localRDepth, site, astVars, fileVars>>

\* RewriteContent returns the parser's error and RewriteFile returns it.
main_parseError ==
  /\ pc = "start" /\ ~Parses(src)
  /\ pc' = "returned"
  /\ UNCHANGED <<src, run, out1, lines, goFuncBlocks, addedLinesCount, fns, currFuncScope,
                 i, end, ogEnd, depth, localCtxDepth, localRDepth, site, astVars, fileVars>>

\* os.WriteFile, first half: the file is opened with O_WRONLY|O_CREATE|O_TRUNC,
\* which empties it, unless opening fails.
main_WriteFile_open ==
  /\ pc = "done"
  /\ \E ok \in BOOLEAN :
       IF ok THEN pc' = "write" /\ disk' = <<>>
       ELSE pc' = "returned" /\ disk' = disk
  /\ UNCHANGED <<src, run, out1, lines, goFuncBlocks, addedLinesCount, fns, currFuncScope,
                 i, end, ogEnd, depth, localCtxDepth, localRDepth, site, astVars, mainVars>>

\* os.WriteFile, second half: Write puts all of the new content into the file,
\* or fails after the first n lines of it (a full disk, an I/O error); the
\* file is closed and the error, if any, returned.
main_WriteFile_write ==
  /\ pc = "write"
  /\ \E n \in 0..Len(out1) : disk' = SubSeq(out1, 1, n)
  /\ pc' = "returned"
  /\ UNCHANGED <<src, run, out1, lines, goFuncBlocks, addedLinesCount, fns, currFuncScope,
                 i, end, ogEnd, depth, localCtxDepth, localRDepth, site, astVars, mainVars>>

\* The files RewriteFile is given: the functions of Programs(n) and one text
\* that does not parse (its closing brace is missing).
FileTexts(n) == Programs(n) \cup { <<Header(<<>>), LineTodo>> }

InitFile ==
  /\ ASTStart
  /\ cmd = <<>> /\ argi = 0 /\ filei = 0 /\ rewritten = {} /\ notices = {}
  /\ \E t \in FileTexts(MaxFileBody) :
       /\ disk = t
       /\ pc = "file" /\ src = <<>> /\ run = 1 /\ out1 = <<>> /\ lines = <<>>
       /\ goFuncBlocks = <<>> /\ addedLinesCount = 0 /\ fns = <<>>
       /\ currFuncScope = main_NoFuncScope
       /\ i = 0 /\ end = 0 /\ ogEnd = 0 /\ depth = 0
       /\ localCtxDepth = -1 /\ localRDepth = -1 /\ site = NoSite

NextFile ==
  \/ main_RewriteFile
  \/ main_parseError
  \/ Parses(src) /\ main_RewriteContent
  \/ main_pushScope
  \/ main_processLine
  \/ main_processGo
  \/ main_popScope
  \/ main_Return
  \/ main_WriteFile_open
  \/ main_WriteFile_write

SpecFile == InitFile /\ [][NextFile]_vars

\* ------------------------------------------------------- main (SpecMain)
\* A command-line argument is a file that parses or not, or a directory with
\* its .go files in the order filepath.Walk visits them.  RewriteFile is one
\* step here: it fails on a file that does not parse and rewrites the others.
PathFile(ok) == [dir |-> FALSE, ok |-> ok, files |-> <<>>]

PathDir(files) == [dir |-> TRUE, ok |-> TRUE, files |-> files]

RECURSIVE SeqsUpTo(_, _)
SeqsUpTo(S, n) ==
  IF n = 0 THEN {<<>>}
  ELSE SeqsUpTo(S, n - 1) \cup
       {Append(q, e) : <<q, e>> \in {<<q, e>> \in SeqsUpTo(S, n - 1) \X S : Len(q) = n - 1}}

Paths(n) == {PathFile(ok) : ok \in BOOLEAN} \cup {PathDir(fs) : fs \in SeqsUpTo(BOOLEAN, n)}

\* main, loop body, else branch: RewriteFile(path) and its notice.
main_file ==
  /\ argi <= Len(cmd) /\ ~cmd[argi].dir
  /\ rewritten' = IF cmd[argi].ok THEN rewritten \cup {<<argi, 0>>} ELSE rewritten
  /\ notices' = notices \cup {<<argi, IF cmd[argi].ok THEN "ok" ELSE "error">>}
  /\ argi' = argi + 1
  /\ UNCHANGED <<cmd, filei, disk, rwVars, astVars>>

\* RewriteDir(path): filepath.Walk starts.
main_RewriteDir ==
  /\ argi <= Len(cmd) /\ cmd[argi].dir /\ filei = 0
  /\ filei' = 1
  /\ UNCHANGED <<cmd, argi, rewritten, notices, disk, rwVars, astVars>>

\* The walk function on one .go file: it returns what RewriteFile returns,
\* and filepath.Walk stops at the first error it is given.
main_RewriteDir_walkFn ==
  /\ argi <= Len(cmd) /\ cmd[argi].dir
  /\ filei >= 1 /\ filei <= Len(cmd[argi].files)
  /\ IF cmd[argi].files[filei]
       THEN /\ rewritten' = rewritten \cup {<<argi, filei>>}
            /\ filei' = filei + 1
            /\ UNCHANGED <<argi, notices>>
       ELSE /\ notices' = notices \cup {<<argi, "error">>}
            /\ argi' = argi + 1
            /\ filei' = 0
            /\ UNCHANGED rewritten
  /\ UNCHANGED <<cmd, disk, rwVars, astVars>>

\* The walk is over without an error: RewriteDir returns nil.
main_RewriteDir_return ==
  /\ argi <= Len(cmd) /\ cmd[argi].dir
  /\ filei > Len(cmd[argi].files)
  /\ notices' = notices \cup {<<argi, "ok">>}
  /\ argi' = argi + 1
  /\ filei' = 0
  /\ UNCHANGED <<cmd, rewritten, disk, rwVars, astVars>>

InitMain ==
  /\ ASTStart /\ RWIdle /\ disk = <<>>
  /\ cmd \in SeqsUpTo(Paths(MaxDirFiles), MaxArgs) \ {<<>>}
  /\ argi = 1 /\ filei = 0 /\ rewritten = {} /\ notices = {}

NextMain ==
  \/ main_file
  \/ main_RewriteDir
  \/ main_RewriteDir_walkFn
  \/ main_RewriteDir_return

SpecMain == InitMain /\ [][NextMain]_vars

\* ================================================== lexical texts (SpecLex)
\* Go's lexer on the pieces of a text: where a piece is read.  "x" is any
\* other run of characters (one character inside a rune literal), "\n" the
\* end of a line.
LexNext(st, p) ==
  CASE st = "code" ->
         IF p = DoubleQuote THEN "str"
         ELSE IF p = SingleQuote THEN "rune"
         ELSE IF p = Backtick THEN "raw"
         ELSE IF p = "//" THEN "line"
         ELSE IF p = "/*" THEN "block"
         ELSE IF p \in {"*/", "\\"} THEN "bad"
         ELSE "code"
    [] st = "str" ->
         IF p = "\\" THEN "strEsc"
         ELSE IF p = DoubleQuote THEN "code"
         ELSE IF p = "\n" THEN "bad"
         ELSE "str"
    [] st = "strEsc" -> IF p \in {DoubleQuote, "\\", "x"} THEN "str" ELSE "bad"
    [] st = "rune" ->
         IF p = "\\" THEN "runeEsc"
         ELSE IF p \in {"x", DoubleQuote, Backtick} THEN "runeEnd"
         ELSE "bad"
    [] st = "runeEsc" -> IF p \in {SingleQuote, "\\", "x"} THEN "runeEnd" ELSE "bad"
    [] st = "runeEnd" -> IF p = SingleQuote THEN "code" ELSE "bad"
    [] st = "raw" -> IF p = Backtick THEN "code" ELSE "raw"
    [] st = "line" -> IF p = "\n" THEN "code" ELSE "line"
    [] st = "block" -> IF p = "*/" THEN "code" ELSE "block"
    [] OTHER -> "bad"

LexPieces == {TODO, DoubleQuote, SingleQuote, Backtick, "//", "/*", "*/", "\\", "x"}

\* The texts the parser accepts that are made of at most MaxLexLines lines
\* and MaxPieces pieces and hold one to MaxTodo context.TODO(): np pieces may
\* still be added, the line being written is in lexer state st and has pieces
\* already iff started.
RECURSIVE LexTexts(_, _, _, _, _)
LexTexts(nl, np, st, td, started) ==
  LET afterLine == LexNext(st, "\n")
  IN   (IF started /\ afterLine = "code" /\ td >= 1 THEN {<<<<>>>>} ELSE {})
    \cup (IF started /\ nl > 1 /\ np > 0 /\ afterLine # "bad"
            THEN {<<<<>>>> \o t : t \in LexTexts(nl - 1, np, afterLine, td, FALSE)}
            ELSE {})
    \cup (IF np = 0 THEN {}
          ELSE UNION { {<<<<p>> \o t[1]>> \o Tail(t) :
                          t \in LexTexts(nl, np - 1, LexNext(st, p),
                                         IF p = TODO THEN td + 1 ELSE td, TRUE)} :
                       p \in {q \in LexPieces : LexNext(st, q) # "bad"
                                                  /\ (q = TODO => td < MaxTodo)} })

\* The lexer state in which piece k of line j of text t is read.
RECURSIVE LexAfterLine(_, _, _)
LexAfterLine(line, k, st) ==
  IF k = 0 THEN st ELSE LexNext(LexAfterLine(line, k - 1, st), line[k])

RECURSIVE LexAtLine(_, _)
LexAtLine(t, j) ==
  IF j = 1 THEN "code"
  ELSE LexNext(LexAfterLine(t[j - 1], Len(t[j - 1]), LexAtLine(t, j - 1)), "\n")

LexAt(t, j, k) == LexAfterLine(t[j], k - 1, LexAtLine(t, j))

\* A function with a ctx parameter whose body is a lexical text.
LexPrograms(n) ==
  { <<Header(<<"ctx", "context.Context">>)>> \o t \o <<LineClose>> :
      t \in LexTexts(MaxLexLines, n, "code", 0, FALSE) }

\* The line rewriter of part_003 on every text of LexPrograms(MaxPieces);
\* these texts hold no go statement.
InitLex == ASTStart /\ NoFile /\ (\E t \in LexPrograms(MaxPieces) : RWStart(t))

NextLex ==
  \/ RewriteContent
  \/ pushScope
  \/ processLine
  \/ popScope
  \/ Return

SpecLex == InitLex /\ [][NextLex]_vars

\* ======================================= texts with one go statement (SpecGo)
\* One function whose body is indented with tabs: an optional line before the
\* go statement (a local ctx, or a block written on one line with a ctx of
\* its own), the go statement, an optional placeholder after it; then,
\* optionally, the declaration of the function f that `go f(...)` launches.
Indent(ls) == [j \in 1..Len(ls) |-> <<"\t">> \o ls[j]]

\* Inline launches: the literal's first line with the line that closes it.
GoLiterals ==
  { [open |-> <<"go", "func", "(", ")", "{">>,
     close |-> <<"}", "(", ")">>, param |-> FALSE, arg |-> FALSE],
    [open |-> <<"go", "func", "(", "ctx", "context.Context", ")", "{">>,
     close |-> <<"}", "(", "ctx", ")">>, param |-> TRUE, arg |-> TRUE],
    [open |-> <<"go", "func", "(", "ctx", "context.Context", ",", "x", "x", ")", "{">>,
     close |-> <<"}", "(", "ctx", ",", "x", ")">>, param |-> TRUE, arg |-> TRUE],
    [open |-> <<"go", "func", "(", "x", "x", ",", "ctx", "context.Context", ")", "{">>,
     close |-> <<"}", "(", "x", ",", "ctx", ")">>, param |-> TRUE, arg |-> TRUE] }

\* Statements of a literal's body; uses: a bare ctx is read, owns: ctx is
\* declared.
GoBodyLines ==
  { [line |-> <<"x", "(", "x", ")">>, uses |-> FALSE, owns |-> FALSE],
    [line |-> <<"x", "(", "ctx", ")">>, uses |-> TRUE, owns |-> FALSE],
    [line |-> <<"x", "(", TODO, ")">>, uses |-> FALSE, owns |-> FALSE],
    [line |-> <<"x", "(", "x", ".", "ctx", ")">>, uses |-> FALSE, owns |-> FALSE],
    [line |-> <<"x", "(", "x", ".", "ctx", ",", "ctx", ")">>, uses |-> TRUE, owns |-> FALSE],
    [line |-> <<"x", "(", "x", ")", "//", "ctx">>, uses |-> FALSE, owns |-> FALSE],
    [line |-> <<"x", "(", DoubleQuote, "ctx", DoubleQuote, ")">>, uses |-> FALSE, owns |-> FALSE],
    [line |-> <<"ctx", ":=", Background>>, uses |-> FALSE, owns |-> TRUE],
    [line |-> <<"ctx", ":=", "ptrOf()">>, uses |-> FALSE, owns |-> TRUE] }

\* Bodies of at most n statements in which ctx is declared at most once, then
\* used: [lines, uses, owns].
RECURSIVE GoBodies(_)
GoBodies(n) ==
  IF n = 0 THEN {[lines |-> <<>>, uses |-> FALSE, owns |-> FALSE]}
  ELSE GoBodies(n - 1) \cup
       { [lines |-> Append(b.lines, l.line),
          uses |-> b.uses \/ (l.uses /\ ~b.owns),
          owns |-> b.owns \/ l.owns] :
           <<b, l>> \in {<<b, l>> \in GoBodies(n - 1) \X GoBodyLines :
                           /\ Len(b.lines) = n - 1
                           /\ (l.owns => ~b.owns)
                           /\ (b.owns /\ Len(b.lines) = 1 => l.uses)} }

\* A go statement: its lines and whether it reads the ctx of the function
\* around it.
InlineLaunches(n) ==
  { [lines |-> <<l.open>> \o Indent(b.lines) \o <<l.close>>,
     needs |-> l.arg \/ (b.uses /\ ~l.param)] :
      <<l, b>> \in {<<l, b>> \in GoLiterals \X GoBodies(n) :
                      /\ b.lines # <<>>
                      /\ (b.owns => ~l.param /\ Len(b.lines) > 1)} }

OneLineLaunches ==
  { [lines |-> <<<<"go", "func", "(", ")", "{", "x", "(", "ctx", ")", "}", "(", ")">>>>,
     needs |-> TRUE],
    [lines |-> <<<<"go", "func", "(", ")", "{", "x", "(", TODO, ")", "}", "(", ")">>>>,
     needs |-> FALSE] }

NamedLaunches ==
  { [lines |-> <<<<"go", "f", "(", "ctx", ")">>>>, needs |-> TRUE],
    [lines |-> <<<<"go", "f", "(", TODO, ")">>>>, needs |-> FALSE],
    [lines |-> <<<<"go", "f", "(", "x", ")">>>>, needs |-> FALSE],
    [lines |-> <<<<"go", "f", "(", "x", ".", "ctx", ",", "ctx", ")">>>>, needs |-> TRUE],
    [lines |-> <<<<"go", "funcName", "(", "ctx", ")">>>>, needs |-> TRUE],
    [lines |-> << <<"go", "f", "(">>, <<"\t", "ctx", ",">>, <<"x", ",">>, <<")">> >>,
     needs |-> TRUE] }

Launches(n) == InlineLaunches(n) \cup OneLineLaunches \cup NamedLaunches

\* What may stand before the go statement, with whether it makes a ctx
\* visible at the go statement.
GoPreambles ==
  { [lines |-> <<>>, visible |-> FALSE],
    [lines |-> <<LineDecl(<<Background>>)>>, visible |-> TRUE],
    [lines |-> <<LineInline>>, visible |-> FALSE] }

GoPrograms(n) ==
  { <<Header(params)>> \o Indent(pre.lines \o g.lines \o post) \o <<LineClose>> \o tail :
      <<params, pre, g, post, tail>> \in
        { <<params, pre, g, post, tail>> \in
            { <<>>, <<"ctx", "context.Context">> } \X GoPreambles \X Launches(n)
              \X { <<>>, <<LineTodo>> } \X { <<>>, TargetDecl } :
            /\ (g.needs => pre.visible \/ params # <<>>)
            /\ ~(params # <<>> /\ pre.visible) } }

\* The line rewriter of part_003 on every text of GoPrograms(MaxGoBody).
InitGo == ASTStart /\ NoFile /\ (\E t \in GoPrograms(MaxGoBody) : RWStart(t))

NextGo ==
  \/ RewriteContent
  \/ pushScope
  \/ processLine
  \/ processGo
  \/ popScope
  \/ Return

SpecGo == InitGo /\ [][NextGo]_vars

\* ================================================ claims, line rewriter
\* ---- Go's lexical scoping of ctx, read off the text itself
\* A binding of ctx: "none", a context.Context parameter ("param") or local
\* ("value"), or a pointer to one declared as a parameter ("ptrparam"), with
\* & ("addr") or from a call returning a pointer ("ptrcall").
RECURSIVE scopePieces(_, _)
scopePieces(line, stack) ==
  IF line = <<>> THEN stack
  ELSE LET c == Head(line)
           rest == Tail(line)
           set(b) == [stack EXCEPT ![Len(stack)] = b]
       IN IF c = "{" THEN scopePieces(rest, Append(stack, Last(stack)))
          ELSE IF c = "}"
            THEN scopePieces(rest, IF Len(stack) <= 2 THEN <<"none">> ELSE Front(stack))
          ELSE IF c = "ctx" /\ rest # <<>> /\ Head(rest) = "context.Context"
            THEN scopePieces(rest, set("param"))
          ELSE IF c = "ctx" /\ Len(rest) >= 2 /\ Head(rest) = "*" /\ rest[2] = "context.Context"
            THEN scopePieces(rest, set("ptrparam"))
          ELSE IF c = "ctx" /\ rest # <<>> /\ Head(rest) = ":="
            THEN scopePieces(rest,
                   set(IF Len(rest) >= 2 /\ rest[2] = "&" THEN "addr"
                       ELSE IF Len(rest) >= 2 /\ rest[2] = "ptrOf()" THEN "ptrcall"
                       ELSE "value"))
          ELSE scopePieces(rest, stack)

RECURSIVE scopeLines(_, _, _)
scopeLines(ls, n, stack) ==
  IF n = 0 THEN stack ELSE scopePieces(ls[n], scopeLines(ls, n - 1, stack))

\* The binding of ctx that Go gives a statement on line n of ls.
BindingAt(ls, n) == Last(scopeLines(ls, n - 1, <<"none">>))

IsPointer(b) == b \in {"ptrparam", "addr", "ptrcall"}

\* A placeholder line the plain branch of processFunction has just handled on
\* the first run.
PlainSite == run = 1 /\ site.op = "line" /\ site.before = LineTodo

\* The text has neither go statements nor blocks written on one line.
BlocksOnly ==
  \A k \in 1..Len(src) : src[k] \notin {LineInline, LineGoCall, LineGoOpen}

Replaced(form) == <<"x", "(", form, ")">>

\* C2: in a function whose blocks re-declare ctx with :=, a placeholder under
\* a visible ctx is replaced with the form of the declaration Go's scoping
\* gives it (*ctx for a declaration with & or a pointer parameter, ctx
\* otherwise), inside the re-declaring block and after it.
C2_InnerFormThenOuterForm ==
  (PlainSite /\ BlocksOnly /\ BindingAt(lines, site.at) # "none")
    => site.after = Replaced(IF BindingAt(lines, site.at) \in {"addr", "ptrparam"}
                               THEN "*ctx" ELSE "ctx")

\* C8: a placeholder under a visible pointer-typed ctx is replaced with *ctx,
\* however the pointer was declared.
C8_PointerAlwaysDereferenced ==
  (PlainSite /\ IsPointer(BindingAt(lines, site.at))) => site.after = Replaced("*ctx")

\* C10: a placeholder at which no ctx is visible (none declared yet in its
\* block or in an enclosing one; declarations of earlier sibling blocks do not
\* count) is left as it is.
C10_NoLookAheadNoSiblingLeak ==
  (PlainSite /\ BindingAt(lines, site.at) = "none") => site.after = site.before

\* C5: running RewriteContent on its own output changes nothing.
C5_Idempotent == (pc = "done" /\ run = 2) => lines = out1

\* C3: in a function with a ctx parameter, a placeholder that follows a
\* nested block with its own `ctx :=`, and that Go's scoping gives the
\* parameter, is replaced with the parameter's form.
C3_ParamBindingRestored ==
  (/\ pc \in {"loop", "walk", "done"} /\ site.op = "line" /\ site.before = LineTodo
   /\ BlocksOnly
   /\ BindingAt(lines, site.at) \in {"param", "ptrparam"}
   /\ \E k \in 1..(site.at - 1) : HasCtxDefine(lines[k]))
    => site.after = Replaced(IF BindingAt(lines, site.at) = "param" THEN "ctx" ELSE "*ctx")

\* C4: a context.TODO() that Go's lexer reads inside a comment or inside a
\* string, rune or raw-string literal is text, and is still there, unchanged,
\* when the rewriter is done.
C4_LiteralsAndCommentsUntouched ==
  pc = "done" =>
    \A j \in 1..Len(src) : \A k \in 1..Len(src[j]) :
      (src[j][k] = TODO /\ LexAt(src, j, k) # "code") => lines[j][k] = TODO

\* ---- go statements (SpecGo): what the language says about the one go
\* statement of the text, read off the source text src
HasGo == \E j \in 1..Len(src) : TrimLeft(src[j]) # <<>> /\ Head(TrimLeft(src[j])) = "go"

\* The first and the last line of the go statement.
GoFirst == CHOOSE j \in 1..Len(src) : TrimLeft(src[j]) # <<>> /\ Head(TrimLeft(src[j])) = "go"

GoLast == NodeEnd(src, GoFirst)

\* What is launched is a function literal (Go's reading: the token func).
GoInline == TrimLeft(src[GoFirst])[2] = "func"

\* The literal's opening brace and its closing brace are on one line.
GoOneLine == GoInline /\ GoLast = GoFirst

\* Piece k of line j is a context.TODO() call in code.
Placeholder(j, k) == src[j][k] = TODO /\ LexAt(src, j, k) = "code"

\* Piece k of line j reads the identifier ctx: in code, not a field selected
\* with a dot, not the name a declaration or a parameter list introduces.
BareCtx(j, k) ==
  /\ src[j][k] = "ctx"
  /\ LexAt(src, j, k) = "code"
  /\ ~(k > 1 /\ src[j][k - 1] = ".")
  /\ ~(k < Len(src[j]) /\ src[j][k + 1] \in {":=", "context.Context", "*"})

\* The pieces of the go statement that belong to the literal's body.
FirstBrace(line) == CHOOSE k \in 1..Len(line) : line[k] = "{" /\ \A m \in 1..(k - 1) : line[m] # "{"

LastBrace(line) == CHOOSE k \in 1..Len(line) : line[k] = "}" /\ \A m \in (k + 1)..Len(line) : line[m] # "}"

InBody(j, k) ==
  IF GoOneLine THEN j = GoFirst /\ FirstBrace(src[j]) < k /\ k < LastBrace(src[j])
  ELSE GoFirst < j /\ j < GoLast

BodyMentionsCtx ==
  \E j \in GoFirst..GoLast : \E k \in 1..Len(src[j]) :
    InBody(j, k) /\ (Placeholder(j, k) \/ BareCtx(j, k))

BodyDeclaresCtx == \E j \in GoFirst..GoLast : GoFirst < j /\ HasCtxDefine(src[j])

ArgsMentionCtx ==
  \E j \in GoFirst..GoLast : \E k \in 1..Len(src[j]) : Placeholder(j, k) \/ BareCtx(j, k)

\* Line j with the references the launched code makes moved to the derived
\* context; inBodyOnly: only the pieces of the literal's body.
WithDerived(j, inBodyOnly) ==
  [k \in 1..Len(src[j]) |->
     IF (Placeholder(j, k) \/ BareCtx(j, k)) /\ (~inBodyOnly \/ InBody(j, k))
       THEN "ctxWithoutCancel" ELSE src[j][k]]

NotTab(piece) == piece # "\t"

\* The pieces of a text in reading order, layout left out.
RECURSIVE Flatten(_)
Flatten(ls) == IF ls = <<>> THEN <<>> ELSE SelectSeq(Head(ls), NotTab) \o Flatten(Tail(ls))

IsPrefix(a, b) == Len(a) <= Len(b) /\ SubSeq(b, 1, Len(a)) = a

\* The rewritten go statement and what follows it.
FromGo == Flatten(SubSeq(lines, GoFirst, Len(lines)))

Instrumented == \E j \in 1..Len(lines) : Count(lines[j], "context.WithoutCancel") > 0

\* The inline launch as the rewrite should leave it: the instrumentation
\* right behind the literal's opening brace, then the body on the derived
\* context, then the closing line as it was.
ExpectedInline ==
  LET stmt == [j \in GoFirst..GoLast |-> WithDerived(j, TRUE)]
      first == stmt[GoFirst]
      b == FirstBrace(first)
  IN SelectSeq(SubSeq(first, 1, b), NotTab)
       \o Flatten(spanLines(<<>>))
       \o SelectSeq(SubSeq(first, b + 1, Len(first)), NotTab)
       \o Flatten([j \in 1..(GoLast - GoFirst) |-> stmt[GoFirst + j]])

\* The launch of a named function as the rewrite should leave it.
ExpectedNamed ==
  <<"go", "func", "(", ")", "{">>
    \o Flatten(spanLines(<<>>))
    \o Tail(Flatten([j \in 1..(GoLast - GoFirst + 1) |-> WithDerived(GoFirst + j - 1, FALSE)]))
    \o <<"}", "(", ")">>

\* C13: an inline launch whose body holds neither a placeholder nor a bare
\* ctx is left as it is, whatever its call arguments, comments, strings and
\* field selectors hold.
C13_LaunchDecidedFromBodyAlone ==
  (pc = "done" /\ HasGo /\ GoInline /\ ~GoOneLine /\ ~BodyMentionsCtx)
    => /\ Len(lines) = Len(src)
       /\ SubSeq(lines, GoFirst, GoLast) = SubSeq(src, GoFirst, GoLast)

\* C14: an inline launch under a visible ctx whose body holds a placeholder
\* or a bare ctx comes out with the instrumentation block right behind the
\* literal's opening brace, once, and with every placeholder and bare ctx of
\* the body replaced by ctxWithoutCancel; on one line as on several.
C14_InlineLaunchInstrumented ==
  (pc = "done" /\ HasGo /\ GoInline /\ BindingAt(src, GoFirst) # "none"
     /\ BodyMentionsCtx /\ ~BodyDeclaresCtx)
    => IsPrefix(ExpectedInline, FromGo)

\* C15: `go f(args)` under a visible ctx whose arguments hold a placeholder or
\* a bare ctx becomes `go func() {`, the instrumentation, f(args') and `}()`
\* right after the call's last line, args' being args with every placeholder
\* and bare ctx replaced by ctxWithoutCancel and nothing else changed.
C15_NamedLaunchPromoted ==
  (pc = "done" /\ HasGo /\ ~GoInline /\ BindingAt(src, GoFirst) # "none" /\ ArgsMentionCtx)
    => /\ IsPrefix(ExpectedNamed, FromGo)
       /\ GoLast + 8 <= Len(lines)
       /\ SelectSeq(lines[GoLast + 8], NotTab) = <<"}", "(", ")">>

\* C16: the declaration of the function a promoted launch starts is the same
\* text in the output as in the input.
C16_LaunchedDeclarationUntouched ==
  (pc = "done" /\ HasGo /\ ~GoInline /\ Instrumented
     /\ Len(src) > 3 /\ SubSeq(src, Len(src) - 2, Len(src)) = TargetDecl
     /\ TrimLeft(src[GoFirst])[2] = "f")
    => SubSeq(lines, Len(lines) - 2, Len(lines)) = TargetDecl

\* C17: a go statement at which no ctx is visible is not instrumented, and a
\* ctx declared inside the launched body stays as it is.
C17_NoInstrumentationWithoutCtx ==
  (pc = "done" /\ HasGo /\ BindingAt(src, GoFirst) = "none")
    => /\ ~Instrumented
       /\ Len(lines) = Len(src)
       /\ \A j \in GoFirst..GoLast : HasCtxDefine(src[j]) => lines[j] = src[j]

\* C18: the argument list after the closing brace of a launched literal that
\* has parameters is the same in the output, wherever ctx stands in it.
C18_LaunchArgumentsUntouched ==
  (pc = "done" /\ HasGo /\ GoInline /\ ~GoOneLine
     /\ Contains(src[GoFirst], <<"ctx", "context.Context">>))
    => lines[GoLast + (Len(lines) - Len(src))] = src[GoLast]

\* C19: a launch whose literal does not start its body on a line of its own
\* is left as it is: nothing is inserted and nothing in it is changed.
C19_UnmatchedLaunchUnmodified ==
  (pc = "done" /\ HasGo /\ GoOneLine)
    => Len(lines) = Len(src) /\ lines[GoFirst] = src[GoFirst]

\* C20: when RewriteFile has returned, the file holds either all of the
\* rewritten content or exactly what was read from it.
C20_FileWholeOrUntouched ==
  pc = "returned" => (disk = out1 /\ out1 # <<>>) \/ disk = src \/ (src = <<>> /\ out1 = <<>>)

\* C21: when main is through the command line, every file that parses, given
\* as an argument or found in a directory given as an argument, has been
\* rewritten, whichever other files failed to parse.
C21_OtherFilesStillProcessed ==
  argi > Len(cmd) =>
    \A a \in 1..Len(cmd) :
      /\ (~cmd[a].dir /\ cmd[a].ok) => <<a, 0>> \in rewritten
      /\ \A f \in 1..Len(cmd[a].files) : cmd[a].files[f] => <<a, f>> \in rewritten

\* The line of the rewritten text that holds line j of the go statement of
\* an inline launch written on several lines (the inserted lines follow the
\* statement's first line).
Moved(j) == IF j = GoFirst THEN j ELSE j + (Len(lines) - Len(src))

\* C22: in the lines of a rewritten inline launch, a context.TODO() or a ctx
\* that the lexer reads inside a comment or a string is the same in the
\* output.
C22_LaunchKeepsCommentsAndStrings ==
  (pc = "done" /\ HasGo /\ GoInline /\ ~GoOneLine)
    => \A j \in GoFirst..GoLast : \A k \in 1..Len(src[j]) :
         (src[j][k] \in {TODO, "ctx"} /\ LexAt(src, j, k) # "code"
            /\ Len(lines[Moved(j)]) = Len(src[j]))
           => lines[Moved(j)][k] = src[j][k]

\* C23: in an inline launch whose body declares its own ctx, the declaration
\* and the lines after it in the body, which read that ctx, are the same in
\* the output.
C23_LaunchBodyOwnCtxKept ==
  (pc = "done" /\ HasGo /\ GoInline /\ ~GoOneLine)
    => \A j \in (GoFirst + 1)..(GoLast - 1) :
         (\E d \in (GoFirst + 1)..j : HasCtxDefine(src[d])) => lines[Moved(j)] = src[j]

\* C24: a context.TODO() in a function declaration is replaced with ctx or
\* *ctx only from the declaration Go's scoping makes visible there: never from
\* a ctx declared in the init clause of a statement that is over, or in
\* another case clause.
C24_InitClauseBindingEnds ==
  (Resolved /\ last.want.lits = 0 /\ last.want.ctx # "other" /\ last.repl \in {"ctx", "*ctx"})
    => /\ last.want.ctx \in {ctxValue, ctxPointer}
       /\ last.fr.ctxAvailPos = last.want.ctxPos

\* C28: a context.TODO() at which the innermost visible declaration of ctx is
\* not a context (another type, or a type that is not known) is not replaced
\* with ctx or *ctx.
C28_NonContextCtxHides ==
  (Resolved /\ last.want.lits = 0 /\ last.want.ctx = "other")
    => last.repl \notin {"ctx", "*ctx"}

\* C25: when a go statement has been handled, every go statement of the
\* current lines that is still to come has its entry in goFuncBlocks, keyed
\* by the line it now starts on and holding the line it now ends on.
C25_LineTableFollowsInsertions ==
  (pc = "loop" /\ site.op = "go")
    => \A s \in DOMAIN GoStmts(lines) :
         s >= i => s \in DOMAIN goFuncBlocks /\ goFuncBlocks[s] = GoStmts(lines)[s]

\* The function of the current lines whose body is being scanned.
ScannedFunc(f) == f.lbrace <= i /\ i <= f.rbrace + 1 /\ f.rbrace = end

\* C26: while a function is scanned, the scanned range is the range its body
\* has in the current lines: the scan position lies in a function of the
\* current lines and the scan ends on that function's closing line.
C26_ScanRangeIsFunctionBody ==
  pc = "loop" => \E k \in DOMAIN FuncDecls(lines, 1) : ScannedFunc(FuncDecls(lines, 1)[k])

\* C27: replaceStandaloneCtx replaces every whole word ctx that does not
\* follow a dot, keeps every ctx that follows a dot, and changes nothing
\* else; each occurrence is decided by the character before it alone.
C27_EachCtxDecidedAlone ==
  site.op = "replaceStandaloneCtx"
    => /\ Len(site.after) = Len(site.before)
       /\ \A k \in 1..Len(site.before) :
            site.after[k] =
              IF site.before[k] = "ctx" /\ ~(k > 1 /\ site.before[k - 1] = ".")
                THEN "ctxWithoutCancel"
                ELSE site.before[k]

\* The nesting depth the braces of lines a..b of ls add up to.
RECURSIVE BraceDepth(_, _, _)
BraceDepth(ls, a, b) ==
  IF a > b THEN 0
  ELSE Count(ls[a], "{") - Count(ls[a], "}") + BraceDepth(ls, a + 1, b)

\* C29: while a function is scanned, the tracked depth is the nesting depth
\* of the lines scanned so far, also after a go statement was handled.
C29_DepthIsNestingDepth ==
  pc = "loop" => depth = BraceDepth(lines, currFuncScope.startLine, i - 1)

\* C30: a binding is only ever recorded in an existing frame: processFile
\* never writes through the nil frame that currentFrame() returns while the
\* frame stack is empty.
C30_BindingHasFrame == phase # "panic"

====
